---- MODULE Spec2Model ----
(***************************************************************************)
(* Indicator and composite-signal scoring engine of the trading bot.       *)
(*                                                                         *)
(* TechnicalAnalyzer (backup_20250629_074758/src/technical_analysis.py),   *)
(* SignalGenerator (src/signal_generator.py) and the signal part of        *)
(* TradingEngine (src/trading_engine.py) are stateless: every call is a    *)
(* request -> response computation.  The state of the model is one call:   *)
(* the operation and its arguments, the value it returned and the          *)
(* exception (if any) that propagated to the caller.                       *)
(*                                                                         *)
(* Numbers.  Python floats are modelled by exact rationals <<n, d>> with   *)
(* d > 0 in lowest terms; IEEE-754 rounding is not modelled, so a weighted *)
(* sum that is exactly on a threshold (0.6 * 2 + 0.4 * (-2) = 0.4) is      *)
(* compared as that exact value.  The square root of the Bollinger bands   *)
(* is kept symbolically: a band value is a + s * sqrt(q) with a, q         *)
(* rational and s in {-1, 0, 1}.                                           *)
(***************************************************************************)
EXTENDS Integers, Sequences, FiniteSets, TLC

VARIABLES pc, args, ret, exc, portfolio_manager, now, executor, strategies, engine,
          session

vars ==
    <<pc, args, ret, exc, portfolio_manager, now, executor, strategies, engine, session>>

\* the objects of the trading side
\* `now` is the date of the clock; `session` is a SignalGenerator and the calls
\* made on it and on its analyzer so far
objects == <<portfolio_manager, now, executor, strategies, engine, session>>

(***************************************************************************)
(* Exact rational arithmetic                                               *)
(***************************************************************************)
Abs(x) == IF x < 0 THEN -x ELSE x

RECURSIVE GCD(_, _)
GCD(a, b) == IF b = 0 THEN a ELSE GCD(b, a % b)

Rat(n, d) ==
    LET g == GCD(Abs(n), Abs(d))
        s == IF d < 0 THEN -1 ELSE 1
    IN  <<(s * n) \div g, (s * d) \div g>>

I2R(i) == <<i, 1>>

\* sums and products cancel common factors before multiplying
RAdd(x, y) ==
    LET g == GCD(x[2], y[2])
    IN  Rat(x[1] * (y[2] \div g) + y[1] * (x[2] \div g), (x[2] \div g) * y[2])

RNeg(x) == <<-x[1], x[2]>>
RSub(x, y) == RAdd(x, RNeg(y))

RMul(x, y) ==
    LET g1 == GCD(Abs(x[1]), y[2])
        g2 == GCD(Abs(y[1]), x[2])
    IN  Rat((x[1] \div g1) * (y[1] \div g2), (x[2] \div g2) * (y[2] \div g1))

\* x / y for y # 0
RDiv(x, y) == RMul(x, IF y[1] < 0 THEN <<-y[2], -y[1]>> ELSE <<y[2], y[1]>>)

RLt(x, y) == RSub(x, y)[1] < 0
RLe(x, y) == RSub(x, y)[1] <= 0
RGt(x, y) == RLt(y, x)
RGe(x, y) == RLe(y, x)
RIsZero(x) == x[1] = 0
RMax(x, y) == IF RLt(x, y) THEN y ELSE x
RMin(x, y) == IF RLt(y, x) THEN y ELSE x

\* sum of xs[lo .. hi], split in halves so that long series stay shallow
RECURSIVE RSumRange(_, _, _)
RSumRange(xs, lo, hi) ==
    IF lo > hi THEN I2R(0)
    ELSE IF lo = hi THEN xs[lo]
    ELSE LET mid == (lo + hi) \div 2
         IN  RAdd(RSumRange(xs, lo, mid), RSumRange(xs, mid + 1, hi))

\* sum(xs) of a sequence of rationals
RSum(xs) == RSumRange(xs, 1, Len(xs))

\* Python slice xs[k:] (a negative k counts from the end, out of range is empty)
SliceFrom(xs, k) ==
    LET n == Len(xs)
        start == IF k >= 0 THEN k ELSE (IF n + k < 0 THEN 0 ELSE n + k)
    IN  IF start >= n THEN <<>> ELSE SubSeq(xs, start + 1, n)

\* Python slice xs[:k] for k >= 0
SliceTo(xs, k) == IF k >= Len(xs) THEN xs ELSE SubSeq(xs, 1, k)

\* Python xs[-1]
Last(xs) == xs[Len(xs)]

\* Python None, an exception object, and the test for a dict
None == [kind |-> "None"]
Raised == [kind |-> "raise"]
IsDict(x) == x.kind = "dict"

\* a returned value / a raised exception
Val(v) == [exc |-> "none", val |-> v]
Raise(e) == [exc |-> e, val |-> <<>>]

(***************************************************************************)
(* TechnicalAnalyzer: indicators                                           *)
(***************************************************************************)

\* mutant: the window misses the price it ends at (prices[i-period+1 : i])
calculate_sma_open_window(prices, period) ==
    IF Len(prices) < period THEN Val(<<>>)
    ELSE IF period = 0 THEN Raise("ZeroDivisionError")
    ELSE Val([j \in 1 .. (Len(prices) - period + 1) |->
                RDiv(RSum(SubSeq(prices, j, j + period - 2)), I2R(period))])

\* calculate_sma: one mean per window of `period` prices; sum([]) / 0 raises
calculate_sma(prices, period) ==
    IF Len(prices) < period THEN Val(<<>>)
    ELSE IF period = 0 THEN Raise("ZeroDivisionError")
    ELSE Val([j \in 1 .. (Len(prices) - period + 1) |->
                RDiv(RSum(SubSeq(prices, j, j + period - 1)), I2R(period))])

\* iterations of the loop of calculate_ema up to index stop; the loop index is
\* recovered from the values appended so far (one entry per processed price)
RECURSIVE ema_run(_, _, _, _, _)
ema_run(prices, period, multiplier, ema_values, stop) ==
    LET i == period + Len(ema_values)
    IN  IF i > stop THEN ema_values
        ELSE ema_run(prices, period, multiplier,
                     Append(ema_values,
                            RAdd(RMul(prices[i], multiplier),
                                 RMul(Last(ema_values), RSub(I2R(1), multiplier)))),
                     stop)

\* the whole loop of calculate_ema, run in stretches of sixteen iterations so
\* that a long series does not nest one evaluation per price
RECURSIVE ema_loop(_, _, _, _)
ema_loop(prices, period, multiplier, ema_values) ==
    LET i == period + Len(ema_values)
        stop == IF i + 15 < Len(prices) THEN i + 15 ELSE Len(prices)
    IN  IF i > Len(prices) THEN ema_values
        ELSE ema_loop(prices, period, multiplier,
                      ema_run(prices, period, multiplier, ema_values, stop))

\* mutant: the multiplier is 2 / period
calculate_ema_wide_multiplier(prices, period) ==
    IF Len(prices) < period THEN Val(<<>>)
    ELSE IF period = 0 THEN Raise("ZeroDivisionError")
    ELSE LET multiplier == Rat(2, period)
             sma_first == RDiv(RSum(SliceTo(prices, period)), I2R(period))
         IN  Val(ema_loop(prices, period, multiplier, <<sma_first>>))

calculate_ema(prices, period) ==
    IF Len(prices) < period THEN Val(<<>>)
    ELSE IF period = 0 THEN Raise("ZeroDivisionError")
    ELSE LET multiplier == Rat(2, period + 1)
             sma_first == RDiv(RSum(SliceTo(prices, period)), I2R(period))
         IN  Val(ema_loop(prices, period, multiplier, <<sma_first>>))

\* mutant: a zero average loss always means 100
calculate_rsi_no_loss_is_100(prices, period) ==
    IF Len(prices) < period + 1 THEN Val(I2R(50))
    ELSE IF period = 0 THEN Val(I2R(50))
    ELSE LET deltas == IF prices = <<>> THEN <<>>
                       ELSE [i \in 1 .. (Len(prices) - 1) |->
                                RSub(prices[i + 1], prices[i])]
             gains == [i \in 1 .. Len(deltas) |->
                         IF RGt(deltas[i], I2R(0)) THEN deltas[i] ELSE I2R(0)]
             losses == [i \in 1 .. Len(deltas) |->
                         IF RLt(deltas[i], I2R(0)) THEN RSub(I2R(0), deltas[i]) ELSE I2R(0)]
             recent_gains == SliceFrom(gains, -period)
             recent_losses == SliceFrom(losses, -period)
             avg_gain == RDiv(RSum(recent_gains), I2R(period))
             avg_loss == RDiv(RSum(recent_losses), I2R(period))
             rs == RDiv(avg_gain, avg_loss)
             rsi == RSub(I2R(100), RDiv(I2R(100), RAdd(I2R(1), rs)))
         IN  IF RIsZero(avg_loss)
             THEN Val(I2R(100))
             ELSE Val(RMax(I2R(0), RMin(I2R(100), rsi)))

\* mutant: gains and losses exchanged
calculate_rsi_swapped(prices, period) ==
    IF Len(prices) < period + 1 THEN Val(I2R(50))
    ELSE IF period = 0 THEN Val(I2R(50))
    ELSE LET deltas == IF prices = <<>> THEN <<>>
                       ELSE [i \in 1 .. (Len(prices) - 1) |->
                                RSub(prices[i + 1], prices[i])]
             gains == [i \in 1 .. Len(deltas) |->
                         IF RLt(deltas[i], I2R(0)) THEN RSub(I2R(0), deltas[i]) ELSE I2R(0)]
             losses == [i \in 1 .. Len(deltas) |->
                         IF RGt(deltas[i], I2R(0)) THEN deltas[i] ELSE I2R(0)]
             recent_gains == SliceFrom(gains, -period)
             recent_losses == SliceFrom(losses, -period)
             avg_gain == RDiv(RSum(recent_gains), I2R(period))
             avg_loss == RDiv(RSum(recent_losses), I2R(period))
             rs == RDiv(avg_gain, avg_loss)
             rsi == RSub(I2R(100), RDiv(I2R(100), RAdd(I2R(1), rs)))
         IN  IF RIsZero(avg_loss)
             THEN Val(IF RGt(avg_gain, I2R(0)) THEN I2R(100) ELSE I2R(50))
             ELSE Val(RMax(I2R(0), RMin(I2R(100), rsi)))

\* mutant: losses keep their sign and the result is not clamped
calculate_rsi_signed_losses(prices, period) ==
    IF Len(prices) < period + 1 THEN Val(I2R(50))
    ELSE IF period = 0 THEN Val(I2R(50))
    ELSE LET deltas == IF prices = <<>> THEN <<>>
                       ELSE [i \in 1 .. (Len(prices) - 1) |->
                                RSub(prices[i + 1], prices[i])]
             gains == [i \in 1 .. Len(deltas) |->
                         IF RGt(deltas[i], I2R(0)) THEN deltas[i] ELSE I2R(0)]
             losses == [i \in 1 .. Len(deltas) |->
                         IF RLt(deltas[i], I2R(0)) THEN deltas[i] ELSE I2R(0)]
             recent_gains == SliceFrom(gains, -period)
             recent_losses == SliceFrom(losses, -period)
             avg_gain == RDiv(RSum(recent_gains), I2R(period))
             avg_loss == RDiv(RSum(recent_losses), I2R(period))
             rs == RDiv(avg_gain, avg_loss)
             rsi == RSub(I2R(100), RDiv(I2R(100), RAdd(I2R(1), rs)))
         IN  IF RIsZero(avg_loss)
             THEN Val(IF RGt(avg_gain, I2R(0)) THEN I2R(100) ELSE I2R(50))
             ELSE IF RIsZero(RAdd(I2R(1), rs)) THEN Val(I2R(50))
             ELSE Val(rsi)

\* mutant: the averages are taken over the last period - 1 changes
calculate_rsi_short_window(prices, period) ==
    IF Len(prices) < period + 1 THEN Val(I2R(50))
    ELSE IF period = 0 THEN Val(I2R(50))
    ELSE LET deltas == IF prices = <<>> THEN <<>>
                       ELSE [i \in 1 .. (Len(prices) - 1) |->
                                RSub(prices[i + 1], prices[i])]
             gains == [i \in 1 .. Len(deltas) |->
                         IF RGt(deltas[i], I2R(0)) THEN deltas[i] ELSE I2R(0)]
             losses == [i \in 1 .. Len(deltas) |->
                         IF RLt(deltas[i], I2R(0)) THEN RSub(I2R(0), deltas[i]) ELSE I2R(0)]
             recent_gains == SliceFrom(gains, 1 - period)
             recent_losses == SliceFrom(losses, 1 - period)
             avg_gain == RDiv(RSum(recent_gains), I2R(period))
             avg_loss == RDiv(RSum(recent_losses), I2R(period))
             rs == RDiv(avg_gain, avg_loss)
             rsi == RSub(I2R(100), RDiv(I2R(100), RAdd(I2R(1), rs)))
         IN  IF RIsZero(avg_loss)
             THEN Val(IF RGt(avg_gain, I2R(0)) THEN I2R(100) ELSE I2R(50))
             ELSE Val(RMax(I2R(0), RMin(I2R(100), rsi)))

\* calculate_rsi; every exception of the body is caught and turned into 50.0
calculate_rsi(prices, period) ==
    IF Len(prices) < period + 1 THEN Val(I2R(50))
    ELSE IF period = 0 THEN Val(I2R(50))
    ELSE LET deltas == IF prices = <<>> THEN <<>>
                       ELSE [i \in 1 .. (Len(prices) - 1) |->
                                RSub(prices[i + 1], prices[i])]
             gains == [i \in 1 .. Len(deltas) |->
                         IF RGt(deltas[i], I2R(0)) THEN deltas[i] ELSE I2R(0)]
             losses == [i \in 1 .. Len(deltas) |->
                         IF RLt(deltas[i], I2R(0)) THEN RSub(I2R(0), deltas[i]) ELSE I2R(0)]
             recent_gains == SliceFrom(gains, -period)
             recent_losses == SliceFrom(losses, -period)
             avg_gain == RDiv(RSum(recent_gains), I2R(period))
             avg_loss == RDiv(RSum(recent_losses), I2R(period))
             rs == RDiv(avg_gain, avg_loss)
             rsi == RSub(I2R(100), RDiv(I2R(100), RAdd(I2R(1), rs)))
         IN  IF RIsZero(avg_loss)
             THEN Val(IF RGt(avg_gain, I2R(0)) THEN I2R(100) ELSE I2R(50))
             ELSE Val(RMax(I2R(0), RMin(I2R(100), rsi)))

\* try: body / except Exception: return fallback
Catch(r, fallback) == IF r.exc = "none" THEN r ELSE Val(fallback)

\* mutant: the neutral result carries the trend of a zero histogram
NeutralMacd_bearish ==
    [macd_line |-> I2R(0), signal_line |-> I2R(0), histogram |-> I2R(0), trend |-> "BEARISH"]

NeutralMacd ==
    [macd_line |-> I2R(0), signal_line |-> I2R(0), histogram |-> I2R(0), trend |-> "NEUTRAL"]

\* mutant: a bearish crossover needs a positive previous histogram and takes a
\* zero current one
_determine_macd_trend_shifted(histogram, macd_values, signal_values) ==
    IF Len(signal_values) >= 2
    THEN LET prev_histogram == RSub(macd_values[Len(macd_values) - 1],
                                    signal_values[Len(signal_values) - 1])
         IN  IF RGt(histogram, I2R(0)) /\ RLe(prev_histogram, I2R(0)) THEN "BULLISH_CROSSOVER"
             ELSE IF RLe(histogram, I2R(0)) /\ RGt(prev_histogram, I2R(0)) THEN "BEARISH_CROSSOVER"
             ELSE IF RGt(histogram, I2R(0)) THEN "BULLISH"
             ELSE "BEARISH"
    ELSE IF RGt(histogram, I2R(0)) THEN "BULLISH" ELSE "BEARISH"

\* _determine_macd_trend with a histogram of exactly zero read as NEUTRAL
_determine_macd_trend_zero_neutral(histogram, macd_values, signal_values) ==
    IF RIsZero(histogram) THEN "NEUTRAL"
    ELSE IF Len(signal_values) >= 2
    THEN LET prev_histogram == RSub(macd_values[Len(macd_values) - 1],
                                    signal_values[Len(signal_values) - 1])
         IN  IF RGt(histogram, I2R(0)) /\ RLe(prev_histogram, I2R(0)) THEN "BULLISH_CROSSOVER"
             ELSE IF RLt(histogram, I2R(0)) /\ RGe(prev_histogram, I2R(0)) THEN "BEARISH_CROSSOVER"
             ELSE IF RGt(histogram, I2R(0)) THEN "BULLISH"
             ELSE "BEARISH"
    ELSE IF RGt(histogram, I2R(0)) THEN "BULLISH" ELSE "BEARISH"

_determine_macd_trend(histogram, macd_values, signal_values) ==
    IF Len(signal_values) >= 2
    THEN LET prev_histogram == RSub(macd_values[Len(macd_values) - 1],
                                    signal_values[Len(signal_values) - 1])
         IN  IF RGt(histogram, I2R(0)) /\ RLe(prev_histogram, I2R(0)) THEN "BULLISH_CROSSOVER"
             ELSE IF RLt(histogram, I2R(0)) /\ RGe(prev_histogram, I2R(0)) THEN "BEARISH_CROSSOVER"
             ELSE IF RGt(histogram, I2R(0)) THEN "BULLISH"
             ELSE "BEARISH"
    ELSE IF RGt(histogram, I2R(0)) THEN "BULLISH" ELSE "BEARISH"

\* mutant: the fast EMA is used from its first value, without the offset
macd_body_unaligned(prices, fast, slow, signal) ==
    LET ema_fast == calculate_ema(prices, fast)
        ema_slow == calculate_ema(prices, slow)
    IN  IF ema_fast.exc # "none" THEN ema_fast
        ELSE IF ema_slow.exc # "none" THEN ema_slow
        ELSE IF ema_fast.val = <<>> \/ ema_slow.val = <<>> THEN Val(NeutralMacd)
        ELSE LET offset == slow - fast
                 ema_fast_aligned == ema_fast.val
             IN  IF Len(ema_fast_aligned) < Len(ema_slow.val) THEN Raise("IndexError")
                 ELSE
                 LET macd_values == [i \in 1 .. Len(ema_slow.val) |->
                                        RSub(ema_fast_aligned[i], ema_slow.val[i])]
                     signal_result == calculate_ema(macd_values, signal)
                     signal_values == signal_result.val
                     macd_line == Last(macd_values)
                     signal_line == Last(signal_values)
                     histogram == RSub(macd_line, signal_line)
                 IN  IF signal_result.exc # "none" THEN signal_result
                     ELSE IF signal_values = <<>>
                     THEN Val([macd_line |-> macd_line, signal_line |-> I2R(0),
                               histogram |-> I2R(0), trend |-> "NEUTRAL"])
                     ELSE Val([macd_line |-> macd_line, signal_line |-> signal_line,
                               histogram |-> histogram,
                               trend |-> _determine_macd_trend(histogram, macd_values,
                                                               signal_values)])

\* the try block of calculate_macd
macd_body(prices, fast, slow, signal) ==
    LET ema_fast == calculate_ema(prices, fast)
        ema_slow == calculate_ema(prices, slow)
    IN  IF ema_fast.exc # "none" THEN ema_fast
        ELSE IF ema_slow.exc # "none" THEN ema_slow
        ELSE IF ema_fast.val = <<>> \/ ema_slow.val = <<>> THEN Val(NeutralMacd)
        ELSE LET offset == slow - fast
                 ema_fast_aligned == SliceFrom(ema_fast.val, offset)
             IN  IF Len(ema_fast_aligned) < Len(ema_slow.val) THEN Raise("IndexError")
                 ELSE
                 LET macd_values == [i \in 1 .. Len(ema_slow.val) |->
                                        RSub(ema_fast_aligned[i], ema_slow.val[i])]
                     signal_result == calculate_ema(macd_values, signal)
                     signal_values == signal_result.val
                     macd_line == Last(macd_values)
                     signal_line == Last(signal_values)
                     histogram == RSub(macd_line, signal_line)
                 IN  IF signal_result.exc # "none" THEN signal_result
                     ELSE IF signal_values = <<>>
                     THEN Val([macd_line |-> macd_line, signal_line |-> I2R(0),
                               histogram |-> I2R(0), trend |-> "NEUTRAL"])
                     ELSE Val([macd_line |-> macd_line, signal_line |-> signal_line,
                               histogram |-> histogram,
                               trend |-> _determine_macd_trend(histogram, macd_values,
                                                               signal_values)])

\* mutant: the body runs outside the try block
calculate_macd_unguarded(prices, fast, slow, signal) ==
    IF Len(prices) < slow + signal THEN Val(NeutralMacd)
    ELSE macd_body(prices, fast, slow, signal)

calculate_macd(prices, fast, slow, signal) ==
    IF Len(prices) < slow + signal THEN Val(NeutralMacd)
    ELSE Catch(macd_body(prices, fast, slow, signal), NeutralMacd)

\* a + s * sqrt(q): the value of a band
Surd(a, s, q) ==
    IF RIsZero(q) \/ s = 0 THEN [a |-> a, s |-> 0, q |-> I2R(0)]
    ELSE [a |-> a, s |-> s, q |-> q]

SurdZero == Surd(I2R(0), 0, I2R(0))

\* x > a + s * sqrt(q)
GtSurd(x, b) ==
    LET t == RSub(x, b.a)
        t2 == RMul(t, t)
    IN  IF b.s = 0 THEN RGt(t, I2R(0))
        ELSE IF b.s = 1 THEN RGt(t, I2R(0)) /\ RGt(t2, b.q)
        ELSE RGe(t, I2R(0)) \/ RLt(t2, b.q)

\* x < a + s * sqrt(q)
LtSurd(x, b) ==
    LET t == RSub(x, b.a)
        t2 == RMul(t, t)
    IN  IF b.s = 0 THEN RLt(t, I2R(0))
        ELSE IF b.s = 1 THEN RLe(t, I2R(0)) \/ RLt(t2, b.q)
        ELSE RLt(t, I2R(0)) /\ RGt(t2, b.q)

NeutralBollinger ==
    [upper_band |-> SurdZero, middle_band |-> I2R(0), lower_band |-> SurdZero,
     bandwidth |-> SurdZero, position |-> "MIDDLE"]

\* bollinger_body with the deviation taken over the whole series
bollinger_body_whole_series(prices, period, std_dev) ==
    LET sma_values == calculate_sma(prices, period) IN
    IF sma_values.exc # "none" THEN sma_values
    ELSE IF sma_values.val = <<>> THEN Val(NeutralBollinger)
    ELSE
    LET middle_band == Last(sma_values.val)
        recent_prices == prices
        n == I2R(Len(recent_prices))
        mean == RDiv(RSum(recent_prices), n)
        variance == RDiv(RSum([i \in 1 .. Len(recent_prices) |->
                                  RMul(RSub(recent_prices[i], mean),
                                       RSub(recent_prices[i], mean))]), n)
        \* (std_dev * sqrt(variance)) ** 2
        dev2 == RMul(RMul(I2R(std_dev), I2R(std_dev)), variance)
        \* the sign of std_dev * sqrt(variance)
        side == IF std_dev < 0 THEN -1 ELSE 1
        upper_band == Surd(middle_band, side, dev2)
        lower_band == Surd(middle_band, -side, dev2)
        \* (upper - lower) / middle * 100
        \*     = sign(std_dev) * sign(middle) * sqrt(4 * dev2 * 100^2 / middle^2)
        bandwidth == Surd(I2R(0), IF RLt(middle_band, I2R(0)) THEN -side ELSE side,
                          RDiv(RMul(I2R(40000), dev2), RMul(middle_band, middle_band)))
        current_price == Last(prices)
        position == IF GtSurd(current_price, upper_band) THEN "ABOVE_UPPER"
                    ELSE IF LtSurd(current_price, lower_band) THEN "BELOW_LOWER"
                    ELSE IF RGt(current_price, middle_band) THEN "UPPER_HALF"
                    ELSE "LOWER_HALF"
    IN  IF RIsZero(middle_band) THEN Raise("ZeroDivisionError")
        ELSE Val([upper_band |-> upper_band, middle_band |-> middle_band,
                  lower_band |-> lower_band, bandwidth |-> bandwidth,
                  position |-> position])

\* bollinger_body with the middle band counted to the upper half
bollinger_body_closed_half(prices, period, std_dev) ==
    LET sma_values == calculate_sma(prices, period) IN
    IF sma_values.exc # "none" THEN sma_values
    ELSE IF sma_values.val = <<>> THEN Val(NeutralBollinger)
    ELSE
    LET middle_band == Last(sma_values.val)
        recent_prices == SliceFrom(prices, -period)
        n == I2R(Len(recent_prices))
        mean == RDiv(RSum(recent_prices), n)
        variance == RDiv(RSum([i \in 1 .. Len(recent_prices) |->
                                  RMul(RSub(recent_prices[i], mean),
                                       RSub(recent_prices[i], mean))]), n)
        \* (std_dev * sqrt(variance)) ** 2
        dev2 == RMul(RMul(I2R(std_dev), I2R(std_dev)), variance)
        \* the sign of std_dev * sqrt(variance)
        side == IF std_dev < 0 THEN -1 ELSE 1
        upper_band == Surd(middle_band, side, dev2)
        lower_band == Surd(middle_band, -side, dev2)
        \* (upper - lower) / middle * 100
        \*     = sign(std_dev) * sign(middle) * sqrt(4 * dev2 * 100^2 / middle^2)
        bandwidth == Surd(I2R(0), IF RLt(middle_band, I2R(0)) THEN -side ELSE side,
                          RDiv(RMul(I2R(40000), dev2), RMul(middle_band, middle_band)))
        current_price == Last(prices)
        position == IF GtSurd(current_price, upper_band) THEN "ABOVE_UPPER"
                    ELSE IF LtSurd(current_price, lower_band) THEN "BELOW_LOWER"
                    ELSE IF RGe(current_price, middle_band) THEN "UPPER_HALF"
                    ELSE "LOWER_HALF"
    IN  IF RIsZero(middle_band) THEN Raise("ZeroDivisionError")
        ELSE Val([upper_band |-> upper_band, middle_band |-> middle_band,
                  lower_band |-> lower_band, bandwidth |-> bandwidth,
                  position |-> position])

\* the try block of calculate_bollinger_bands
bollinger_body(prices, period, std_dev) ==
    LET sma_values == calculate_sma(prices, period) IN
    IF sma_values.exc # "none" THEN sma_values
    ELSE IF sma_values.val = <<>> THEN Val(NeutralBollinger)
    ELSE
    LET middle_band == Last(sma_values.val)
        recent_prices == SliceFrom(prices, -period)
        n == I2R(Len(recent_prices))
        mean == RDiv(RSum(recent_prices), n)
        variance == RDiv(RSum([i \in 1 .. Len(recent_prices) |->
                                  RMul(RSub(recent_prices[i], mean),
                                       RSub(recent_prices[i], mean))]), n)
        \* (std_dev * sqrt(variance)) ** 2
        dev2 == RMul(RMul(I2R(std_dev), I2R(std_dev)), variance)
        \* the sign of std_dev * sqrt(variance)
        side == IF std_dev < 0 THEN -1 ELSE 1
        upper_band == Surd(middle_band, side, dev2)
        lower_band == Surd(middle_band, -side, dev2)
        \* (upper - lower) / middle * 100
        \*     = sign(std_dev) * sign(middle) * sqrt(4 * dev2 * 100^2 / middle^2)
        bandwidth == Surd(I2R(0), IF RLt(middle_band, I2R(0)) THEN -side ELSE side,
                          RDiv(RMul(I2R(40000), dev2), RMul(middle_band, middle_band)))
        current_price == Last(prices)
        position == IF GtSurd(current_price, upper_band) THEN "ABOVE_UPPER"
                    ELSE IF LtSurd(current_price, lower_band) THEN "BELOW_LOWER"
                    ELSE IF RGt(current_price, middle_band) THEN "UPPER_HALF"
                    ELSE "LOWER_HALF"
    IN  IF RIsZero(middle_band) THEN Raise("ZeroDivisionError")
        ELSE Val([upper_band |-> upper_band, middle_band |-> middle_band,
                  lower_band |-> lower_band, bandwidth |-> bandwidth,
                  position |-> position])

calculate_bollinger_bands(prices, period, std_dev) ==
    IF Len(prices) < period
    THEN Val(NeutralBollinger)
    ELSE Catch(bollinger_body(prices, period, std_dev), NeutralBollinger)

(***************************************************************************)
(* TechnicalAnalyzer: scoring                                              *)
(***************************************************************************)
_calculate_rsi_component(rsi) ==
    IF RLt(rsi, I2R(30)) THEN Rat(3, 10)
    ELSE IF RGt(rsi, I2R(70)) THEN Rat(-3, 10)
    ELSE RMul(RDiv(RSub(I2R(50), rsi), I2R(100)), Rat(15, 100))

_calculate_macd_component(macd) ==
    LET macd_signal == macd.trend
    IN  IF macd_signal = "BULLISH_CROSSOVER" THEN Rat(25, 100)
        ELSE IF macd_signal = "BEARISH_CROSSOVER" THEN Rat(-25, 100)
        ELSE IF macd_signal = "BULLISH" THEN Rat(15, 100)
        ELSE IF macd_signal = "BEARISH" THEN Rat(-15, 100)
        ELSE I2R(0)

\* mutant: any mixed pair of comparisons counts as "above the short average"
_calculate_ma_component_any_mixed(price_vs_sma20, price_vs_sma50) ==
    IF price_vs_sma20 = "ABOVE" /\ price_vs_sma50 = "ABOVE" THEN Rat(25, 100)
    ELSE IF price_vs_sma20 = "BELOW" /\ price_vs_sma50 = "BELOW" THEN Rat(-25, 100)
    ELSE Rat(1, 10)

_calculate_ma_component(price_vs_sma20, price_vs_sma50) ==
    IF price_vs_sma20 = "ABOVE" /\ price_vs_sma50 = "ABOVE" THEN Rat(25, 100)
    ELSE IF price_vs_sma20 = "BELOW" /\ price_vs_sma50 = "BELOW" THEN Rat(-25, 100)
    ELSE IF price_vs_sma20 = "ABOVE" THEN Rat(1, 10)
    ELSE I2R(0)

_calculate_bollinger_component(bollinger) ==
    LET bb_position == bollinger.position
    IN  IF bb_position = "BELOW_LOWER" THEN Rat(2, 10)
        ELSE IF bb_position = "ABOVE_UPPER" THEN Rat(-2, 10)
        ELSE IF bb_position = "UPPER_HALF" THEN Rat(5, 100)
        ELSE IF bb_position = "LOWER_HALF" THEN Rat(-5, 100)
        ELSE I2R(0)

_calculate_signal_score(rsi, macd, price_vs_sma20, price_vs_sma50, bollinger) ==
    LET score == RAdd(RAdd(RAdd(_calculate_rsi_component(rsi),
                                _calculate_macd_component(macd)),
                           _calculate_ma_component(price_vs_sma20, price_vs_sma50)),
                      _calculate_bollinger_component(bollinger))
    IN  RMax(I2R(-1), RMin(I2R(1), score))

\* mutant: strict comparisons at the thresholds
_get_signal_label_strict(score) ==
    IF RGt(score, Rat(6, 10)) THEN "STRONG_BUY"
    ELSE IF RGt(score, Rat(2, 10)) THEN "BUY"
    ELSE IF RLt(score, Rat(-6, 10)) THEN "STRONG_SELL"
    ELSE IF RLt(score, Rat(-2, 10)) THEN "SELL"
    ELSE "HOLD"

_get_signal_label(score) ==
    IF RGe(score, Rat(6, 10)) THEN "STRONG_BUY"
    ELSE IF RGe(score, Rat(2, 10)) THEN "BUY"
    ELSE IF RLe(score, Rat(-6, 10)) THEN "STRONG_SELL"
    ELSE IF RLe(score, Rat(-2, 10)) THEN "SELL"
    ELSE "HOLD"

_get_rsi_signal(rsi) ==
    IF RLe(rsi, I2R(30)) THEN "BUY"
    ELSE IF RGe(rsi, I2R(70)) THEN "SELL"
    ELSE "HOLD"

\* mutant: the sum is returned without the cap min(1.0, confidence)
\* "CROSSOVER" in macd_trend, over the names a trend can take
HasCrossover(macd_trend) == macd_trend \in {"BULLISH_CROSSOVER", "BEARISH_CROSSOVER"}

_calculate_confidence_uncapped(rsi, macd, data_points) ==
    LET c1 == IF data_points >= 100 THEN Rat(2, 10)
              ELSE IF data_points >= 50 THEN Rat(1, 10)
              ELSE I2R(0)
        c2 == IF RLe(rsi, I2R(25)) \/ RGe(rsi, I2R(75)) THEN Rat(2, 10)
              ELSE IF RLe(rsi, I2R(35)) \/ RGe(rsi, I2R(65)) THEN Rat(1, 10)
              ELSE I2R(0)
        macd_trend == IF "trend" \in DOMAIN macd THEN macd.trend ELSE "NEUTRAL"
        c3 == IF HasCrossover(macd_trend) THEN Rat(2, 10) ELSE I2R(0)
    IN  RAdd(RAdd(RAdd(Rat(5, 10), c1), c2), c3)

\* _calculate_confidence with the full data bonus only above 100 points
_calculate_confidence_above_100(rsi, macd, data_points) ==
    LET c1 == IF data_points > 100 THEN Rat(2, 10)
              ELSE IF data_points >= 50 THEN Rat(1, 10)
              ELSE I2R(0)
        c2 == IF RLe(rsi, I2R(25)) \/ RGe(rsi, I2R(75)) THEN Rat(2, 10)
              ELSE IF RLe(rsi, I2R(35)) \/ RGe(rsi, I2R(65)) THEN Rat(1, 10)
              ELSE I2R(0)
        macd_trend == IF "trend" \in DOMAIN macd THEN macd.trend ELSE "NEUTRAL"
        c3 == IF HasCrossover(macd_trend) THEN Rat(2, 10) ELSE I2R(0)
    IN  RMin(I2R(1), RAdd(RAdd(RAdd(Rat(5, 10), c1), c2), c3))

_calculate_confidence(rsi, macd, data_points) ==
    LET c1 == IF data_points >= 100 THEN Rat(2, 10)
              ELSE IF data_points >= 50 THEN Rat(1, 10)
              ELSE I2R(0)
        c2 == IF RLe(rsi, I2R(25)) \/ RGe(rsi, I2R(75)) THEN Rat(2, 10)
              ELSE IF RLe(rsi, I2R(35)) \/ RGe(rsi, I2R(65)) THEN Rat(1, 10)
              ELSE I2R(0)
        macd_trend == IF "trend" \in DOMAIN macd THEN macd.trend ELSE "NEUTRAL"
        c3 == IF HasCrossover(macd_trend) THEN Rat(2, 10) ELSE I2R(0)
    IN  RMin(I2R(1), RAdd(RAdd(RAdd(Rat(5, 10), c1), c2), c3))

_create_error_result(error_message) ==
    [success |-> FALSE, error |-> error_message, data_quality |-> "ERROR",
     combined_signal |-> I2R(0), rsi_signal |-> "HOLD", macd_signal |-> "NEUTRAL",
     trend_direction |-> "NEUTRAL", confidence |-> I2R(0)]

\* _create_limited_result answering with a neutral HOLD at confidence 0.5
_create_limited_result_as_hold(current_price, data_points) ==
    [success |-> TRUE, data_quality |-> "LIMITED", data_points |-> data_points,
     current_price |-> current_price,
     signal |-> [score |-> I2R(0), label |-> "HOLD", confidence |-> Rat(5, 10)],
     combined_signal |-> I2R(0), rsi_signal |-> "HOLD", macd_signal |-> "NEUTRAL",
     trend_direction |-> "NEUTRAL", confidence |-> Rat(5, 10)]

_create_limited_result(current_price, data_points) ==
    [success |-> TRUE, data_quality |-> "LIMITED", data_points |-> data_points,
     current_price |-> current_price,
     signal |-> [score |-> I2R(0), label |-> "INSUFFICIENT_DATA", confidence |-> Rat(1, 10)],
     combined_signal |-> I2R(0), rsi_signal |-> "HOLD", macd_signal |-> "NEUTRAL",
     trend_direction |-> "NEUTRAL", confidence |-> Rat(1, 10)]

\* analyze_ticker once get_ticker_data_for_analysis has returned `ticker_data`
\* (None: no data, Raised: the provider raised)
analyze_ticker(ticker_data) ==
    IF ticker_data.kind = "raise" THEN _create_error_result("exception")
    ELSE IF ticker_data.kind = "None" THEN _create_error_result("no data")
    ELSE
    LET prices == ticker_data.price_history
        current_price == ticker_data.current_price
    IN  IF Len(prices) < 50 THEN _create_limited_result(current_price, Len(prices))
        ELSE
        LET rsi == calculate_rsi(prices, 14).val
            macd == calculate_macd(prices, 12, 26, 9).val
            bollinger == calculate_bollinger_bands(prices, 20, 2).val
            sma_20 == calculate_sma(prices, 20).val
            sma_50 == calculate_sma(prices, 50).val
            ema_12 == calculate_ema(prices, 12).val
            ema_26 == calculate_ema(prices, 26).val
            current_sma_20 == IF sma_20 # <<>> THEN Last(sma_20) ELSE current_price
            current_sma_50 == IF sma_50 # <<>> THEN Last(sma_50) ELSE current_price
            current_ema_12 == IF ema_12 # <<>> THEN Last(ema_12) ELSE current_price
            current_ema_26 == IF ema_26 # <<>> THEN Last(ema_26) ELSE current_price
            price_vs_sma20 == IF RGt(current_price, current_sma_20) THEN "ABOVE" ELSE "BELOW"
            price_vs_sma50 == IF RGt(current_price, current_sma_50) THEN "ABOVE" ELSE "BELOW"
            sma_trend == IF RGt(current_sma_20, current_sma_50) THEN "BULLISH" ELSE "BEARISH"
            signal_score == _calculate_signal_score(rsi, macd, price_vs_sma20,
                                                    price_vs_sma50, bollinger)
            signal_label == _get_signal_label(signal_score)
        IN  [success |-> TRUE, data_quality |-> "REAL_DATA", data_points |-> Len(prices),
             current_price |-> current_price,
             rsi |-> [value |-> rsi, signal |-> _get_rsi_signal(rsi)],
             macd |-> macd,
             moving_averages |->
                 [sma_20 |-> current_sma_20, sma_50 |-> current_sma_50,
                  ema_12 |-> current_ema_12, ema_26 |-> current_ema_26,
                  price_vs_sma20 |-> price_vs_sma20, price_vs_sma50 |-> price_vs_sma50,
                  trend |-> sma_trend],
             bollinger_bands |-> bollinger,
             signal |-> [score |-> signal_score, label |-> signal_label,
                         confidence |-> _calculate_confidence(rsi, macd, Len(prices))],
             combined_signal |-> signal_score,
             rsi_signal |-> _get_rsi_signal(rsi),
             macd_signal |-> macd.trend,
             trend_direction |-> IF RGt(signal_score, I2R(0)) THEN "UP" ELSE "DOWN",
             confidence |-> _calculate_confidence(rsi, macd, Len(prices))]

(***************************************************************************)
(* SignalGenerator (src/signal_generator.py)                               *)
(***************************************************************************)

\* Python round(x, 2): the nearest multiple of 1/100, a tie going to the even one
Round2(x) ==
    LET n == x[1] * 100
        d == x[2]
        f == n \div d
        r == n - f * d
        q == IF 2 * r < d THEN f
             ELSE IF 2 * r > d THEN f + 1
             ELSE IF f % 2 = 0 THEN f ELSE f + 1
    IN  Rat(q, 100)

\* mutant: the labels valued on the scale of the technical score
signal_values_unit_scale(signal) ==
    IF signal = "STRONG_BUY" THEN I2R(1)
    ELSE IF signal = "BUY" THEN Rat(1, 2)
    ELSE IF signal = "NEUTRAL_BULLISH" THEN Rat(1, 4)
    ELSE IF signal = "HOLD" THEN I2R(0)
    ELSE IF signal = "NEUTRAL_BEARISH" THEN Rat(-1, 4)
    ELSE IF signal = "SELL" THEN Rat(-1, 2)
    ELSE IF signal = "STRONG_SELL" THEN I2R(-1)
    ELSE I2R(0)

\* signal_values.get(signal, 0)
signal_values(signal) ==
    IF signal = "STRONG_BUY" THEN I2R(2)
    ELSE IF signal = "BUY" THEN I2R(1)
    ELSE IF signal = "NEUTRAL_BULLISH" THEN Rat(1, 2)
    ELSE IF signal = "HOLD" THEN I2R(0)
    ELSE IF signal = "NEUTRAL_BEARISH" THEN Rat(-1, 2)
    ELSE IF signal = "SELL" THEN I2R(-1)
    ELSE IF signal = "STRONG_SELL" THEN I2R(-2)
    ELSE I2R(0)

\* mutant: weights that do not sum to one
weights_unnormalised == [technical |-> Rat(6, 10), news |-> Rat(6, 10)]

weights == [technical |-> Rat(6, 10), news |-> Rat(4, 10)]

_news_score_to_signal(news_score) ==
    IF RGe(news_score, Rat(12, 10)) THEN "STRONG_BUY"
    ELSE IF RGe(news_score, Rat(4, 10)) THEN "BUY"
    ELSE IF RLe(news_score, Rat(-12, 10)) THEN "STRONG_SELL"
    ELSE IF RLe(news_score, Rat(-4, 10)) THEN "SELL"
    ELSE "HOLD"

_create_error_signal(error_message) ==
    [success |-> FALSE, error_message |-> error_message,
     combined_signal |-> [signal |-> "UNKNOWN", score |-> I2R(0), confidence |-> I2R(0)]]

\* a result dict is truthy and marked successful
Succeeded(result) == IsDict(result) /\ result.success

_combine_signals(technical_result, news_result) ==
    LET tech_ok == Succeeded(technical_result)
        technical_score == IF tech_ok
                           THEN signal_values(technical_result.overall_signal.signal)
                           ELSE I2R(0)
        technical_confidence == IF tech_ok
                                THEN technical_result.overall_signal.confidence
                                ELSE I2R(0)
        news_ok == Succeeded(news_result) /\ IsDict(news_result.sentiment)
        news_score == IF news_ok
                      THEN RMul(news_result.sentiment.sentiment_score, I2R(2))
                      ELSE I2R(0)
        news_confidence == IF news_ok THEN news_result.sentiment.confidence ELSE I2R(0)
        combined_score == RAdd(RMul(technical_score, weights.technical),
                               RMul(news_score, weights.news))
        combined_confidence == RAdd(RMul(technical_confidence, weights.technical),
                                    RMul(news_confidence, weights.news))
        signal == IF RGe(combined_score, Rat(12, 10)) THEN "STRONG_BUY"
                  ELSE IF RGe(combined_score, Rat(4, 10)) THEN "BUY"
                  ELSE IF RLe(combined_score, Rat(-12, 10)) THEN "STRONG_SELL"
                  ELSE IF RLe(combined_score, Rat(-4, 10)) THEN "SELL"
                  ELSE "HOLD"
    IN  [success |-> TRUE, error_message |-> "None",
         combined_signal |-> [signal |-> signal, score |-> Round2(combined_score),
                              confidence |-> Round2(combined_confidence)],
         components |->
             [technical |-> [available |-> tech_ok,
                             signal |-> IF IsDict(technical_result)
                                        THEN technical_result.overall_signal.signal
                                        ELSE "UNKNOWN",
                             score |-> technical_score,
                             confidence |-> technical_confidence,
                             weight |-> weights.technical],
              news |-> [available |-> news_ok,
                        signal |-> _news_score_to_signal(news_score),
                        score |-> news_score,
                        confidence |-> news_confidence,
                        weight |-> weights.news]]]

\* generate_combined_signal once both providers have finished (Raised: the
\* provider raised, which asyncio.gather hands back as an exception object).
\* The log line after the combination reads combined_signal['signal'].
generate_combined_signal(technical_outcome, news_outcome) ==
    LET technical_result == IF technical_outcome.kind = "raise" THEN None
                            ELSE technical_outcome
        news_result == IF news_outcome.kind = "raise" THEN None ELSE news_outcome
        combined_signal == _combine_signals(technical_result, news_result)
    IN  IF "signal" \in DOMAIN combined_signal
        THEN combined_signal
        ELSE _create_error_signal("KeyError")

(***************************************************************************)
(* TradingEngine: the weighted signal of generate_trading_signal           *)
(***************************************************************************)
_interpret_signal(combined_score) ==
    LET abs_score == IF RLt(combined_score, I2R(0)) THEN RNeg(combined_score)
                     ELSE combined_score
        strength == IF RGe(abs_score, Rat(8, 10)) THEN "VERY_STRONG"
                    ELSE IF RGe(abs_score, Rat(6, 10)) THEN "STRONG"
                    ELSE IF RGe(abs_score, Rat(4, 10)) THEN "MODERATE"
                    ELSE IF RGe(abs_score, Rat(2, 10)) THEN "WEAK"
                    ELSE "VERY_WEAK"
        direction == IF RGt(combined_score, Rat(1, 10)) THEN "BUY"
                     ELSE IF RLt(combined_score, Rat(-1, 10)) THEN "SELL"
                     ELSE "HOLD"
    IN  <<direction, strength>>

\* TradingEngine._calculate_confidence
engine_calculate_confidence(technical_result, news_result) ==
    LET base == Rat(5, 10)
        c1 == IF technical_result.rsi_signal /\ technical_result.macd_signal
              THEN RAdd(base, Rat(2, 10)) ELSE base
        c2 == IF IsDict(news_result.sentiment)
                 /\ RGt(news_result.sentiment.confidence, Rat(7, 10))
              THEN RAdd(c1, Rat(2, 10)) ELSE c1
    IN  RMax(I2R(0), RMin(I2R(1), c2))

\* generate_trading_signal once both analyzers have answered; a missing answer
\* (None) fails on .get inside the try block, a raised one is caught there too
generate_trading_signal(technical_result, news_result) ==
    IF ~IsDict(technical_result) THEN None
    ELSE IF ~technical_result.success THEN None
    ELSE IF ~IsDict(news_result) THEN None
    ELSE LET technical_score == technical_result.combined_signal
             news_score == IF news_result.success /\ IsDict(news_result.sentiment)
                           THEN news_result.sentiment.sentiment_score
                           ELSE I2R(0)
             combined_score == RAdd(RMul(technical_score, Rat(6, 10)),
                                    RMul(news_score, Rat(4, 10)))
             interpreted == _interpret_signal(combined_score)
             direction == interpreted[1]
             strength == interpreted[2]
             confidence == engine_calculate_confidence(technical_result, news_result)
         IN  IF strength \in {"VERY_WEAK", "WEAK"} \/ RLt(confidence, Rat(5, 10))
             THEN None
             ELSE [kind |-> "TradingSignal", direction |-> direction,
                   strength |-> strength, confidence |-> confidence,
                   technical_score |-> technical_score, news_score |-> news_score,
                   combined_score |-> combined_score]

(***************************************************************************)
(* PortfolioManager (src/portfolio_manager.py)                             *)
(***************************************************************************)
initial_balance == 1000000
max_daily_trades == 5
max_position_size == Rat(5, 100)
default_commission_rate == Rat(5, 10000)

\* an argument left out (None) or given
Omitted == [kind |-> "None"]
Given(x) == [kind |-> "given", value |-> x]

NoPositions == [t \in {} |-> 0]

\* PortfolioManager.__init__: a missing or zero balance gives the configured one
PortfolioManager(balance) ==
    LET b == IF balance.kind = "None" \/ balance.value = 0
             THEN initial_balance ELSE balance.value
    IN  [initial_balance |-> I2R(b), cash_balance |-> I2R(b),
         positions |-> NoPositions, trades |-> <<>>]

\* Position.cost_basis
cost_basis(position) == RMul(I2R(position.quantity), position.avg_price)

\* the trades whose timestamp starts with today's date
today_trades(self, today) ==
    Cardinality({i \in 1 .. Len(self.trades) : self.trades[i].day = today})

\* _validate_purchase with the position size checked before the funds
_validate_purchase_size_first(self, today, ticker, quantity, price, total_cost) ==
    IF RGt(total_cost, RMul(self.initial_balance, max_position_size))
    THEN [valid |-> FALSE, reason |-> "maximum position size"]
    ELSE IF RGt(total_cost, self.cash_balance)
    THEN [valid |-> FALSE, reason |-> "insufficient funds"]
    ELSE IF today_trades(self, today) >= max_daily_trades
    THEN [valid |-> FALSE, reason |-> "daily trades limit"]
    ELSE [valid |-> TRUE, reason |-> "OK"]

_validate_purchase(self, today, ticker, quantity, price, total_cost) ==
    IF RGt(total_cost, self.cash_balance)
    THEN [valid |-> FALSE, reason |-> "insufficient funds"]
    ELSE IF RGt(total_cost, RMul(self.initial_balance, max_position_size))
    THEN [valid |-> FALSE, reason |-> "maximum position size"]
    ELSE IF today_trades(self, today) >= max_daily_trades
    THEN [valid |-> FALSE, reason |-> "daily trades limit"]
    ELSE [valid |-> TRUE, reason |-> "OK"]

\* the positions after a purchase, or the exception of the division
_update_position_after_buy(positions, ticker, quantity, price) ==
    IF ticker \in DOMAIN positions
    THEN LET position == positions[ticker]
             total_quantity == position.quantity + quantity
             total_cost == RAdd(cost_basis(position), RMul(I2R(quantity), price))
         IN  IF total_quantity = 0 THEN Raise("ZeroDivisionError")
             ELSE Val([positions EXCEPT ![ticker] =
                          [quantity |-> total_quantity,
                           avg_price |-> RDiv(total_cost, I2R(total_quantity))]])
    ELSE Val([t \in DOMAIN positions \cup {ticker} |->
                 IF t = ticker THEN [quantity |-> quantity, avg_price |-> price]
                 ELSE positions[t]])

\* buy_stock: the manager after the call and the dictionary returned.  Without
\* a price the call awaits the synchronous TinkoffClient.search_instrument,
\* which raises TypeError inside the try block.
\* buy_stock that takes the price of the shares, not the commission, from the cash
buy_stock_commission_unpaid(self, today, ticker, quantity, price) ==
    IF price.kind = "None"
    THEN [self |-> self, result |-> [success |-> FALSE, error |-> "TypeError"]]
    ELSE
    LET commission == RMul(RMul(I2R(quantity), price.value), default_commission_rate)
        total_cost == RAdd(RMul(I2R(quantity), price.value), commission)
        validation_result ==
            _validate_purchase(self, today, ticker, quantity, price.value, total_cost)
        trade == [ticker |-> ticker, action |-> "BUY", quantity |-> quantity,
                  price |-> price.value, day |-> today, commission |-> commission]
        paid == [self EXCEPT !.cash_balance =
                                RSub(@, RMul(I2R(quantity), price.value))]
        updated == _update_position_after_buy(self.positions, ticker, quantity, price.value)
    IN  IF ~validation_result.valid
        THEN [self |-> self,
              result |-> [success |-> FALSE, error |-> validation_result.reason]]
        ELSE IF updated.exc # "none"
        THEN [self |-> paid, result |-> [success |-> FALSE, error |-> updated.exc]]
        ELSE [self |-> [paid EXCEPT !.positions = updated.val,
                                    !.trades = Append(@, trade)],
              result |-> [success |-> TRUE, ticker |-> ticker, action |-> "BUY",
                          quantity |-> quantity, price |-> price.value,
                          commission |-> commission, total_cost |-> total_cost,
                          new_cash_balance |-> paid.cash_balance]]

buy_stock(self, today, ticker, quantity, price) ==
    IF price.kind = "None"
    THEN [self |-> self, result |-> [success |-> FALSE, error |-> "TypeError"]]
    ELSE
    LET commission == RMul(RMul(I2R(quantity), price.value), default_commission_rate)
        total_cost == RAdd(RMul(I2R(quantity), price.value), commission)
        validation_result ==
            _validate_purchase(self, today, ticker, quantity, price.value, total_cost)
        trade == [ticker |-> ticker, action |-> "BUY", quantity |-> quantity,
                  price |-> price.value, day |-> today, commission |-> commission]
        paid == [self EXCEPT !.cash_balance = RSub(@, total_cost)]
        updated == _update_position_after_buy(self.positions, ticker, quantity, price.value)
    IN  IF ~validation_result.valid
        THEN [self |-> self,
              result |-> [success |-> FALSE, error |-> validation_result.reason]]
        ELSE IF updated.exc # "none"
        THEN [self |-> paid, result |-> [success |-> FALSE, error |-> updated.exc]]
        ELSE [self |-> [paid EXCEPT !.positions = updated.val,
                                    !.trades = Append(@, trade)],
              result |-> [success |-> TRUE, ticker |-> ticker, action |-> "BUY",
                          quantity |-> quantity, price |-> price.value,
                          commission |-> commission, total_cost |-> total_cost,
                          new_cash_balance |-> paid.cash_balance]]

(***************************************************************************)
(* StrategyExecutor (src/strategy_executor.py)                             *)
(***************************************************************************)
min_confidence_threshold == Rat(7, 10)

\* str.upper on the tickers used here
upper(ticker) ==
    IF ticker = "sber" THEN "SBER" ELSE IF ticker = "gazp" THEN "GAZP" ELSE ticker

\* StrategyExecutor.__init__
StrategyExecutor(today) ==
    [execution_mode |-> "DISABLED", enabled_tickers |-> {}, execution_history |-> <<>>,
     daily_executions |-> 0, last_reset_date |-> today]

enable_auto_trading(self, mode) == [self EXCEPT !.execution_mode = mode]

disable_auto_trading(self) == [self EXCEPT !.execution_mode = "DISABLED"]

add_ticker_for_execution(self, ticker) ==
    [self EXCEPT !.enabled_tickers = @ \cup {upper(ticker)}]

remove_ticker_from_execution(self, ticker) ==
    [self EXCEPT !.enabled_tickers = @ \ {upper(ticker)}]

\* _check_daily_limits: the executor after the reset of a new day, and the answer
_check_daily_limits(self, today) ==
    LET reset == IF today # self.last_reset_date
                 THEN [self EXCEPT !.daily_executions = 0, !.last_reset_date = today]
                 ELSE self
    IN  [self |-> reset, ok |-> reset.daily_executions < max_daily_trades]

\* asyncio.run(main): refused inside a running event loop, and for anything
\* that is not a coroutine
asyncio_run(loop_running, is_coroutine, value) ==
    IF loop_running THEN Raise("RuntimeError")
    ELSE IF ~is_coroutine THEN Raise("ValueError")
    ELSE Val(value)

\* calculate_position_size: TinkoffClient.search_instrument is synchronous,
\* so asyncio.run is handed its result, not a coroutine; the exception is
\* caught and the size is 0
calculate_position_size(loop_running, instrument, quantity) ==
    LET found == asyncio_run(loop_running, FALSE, instrument)
    IN  IF found.exc # "none" THEN 0
        ELSE IF found.val = "None" THEN 0
        ELSE IF quantity < 1 THEN 1 ELSE quantity

\* the record of an execution that ends with `status`
ExecutionRecord(ticker, signal, status, error_message, quantity) ==
    [ticker |-> ticker, signal |-> signal, status |-> status,
     error_message |-> error_message, quantity |-> quantity]

\* execute_signal that does not ask whether the ticker is enabled
execute_signal_any_ticker(self, manager, today, ticker, signal) ==
    LET limits == _check_daily_limits(self, today)
        quantity == calculate_position_size(TRUE, "instrument", 1)
        bought == buy_stock(manager, today, ticker, quantity, Omitted)
        Rejected(this, why) ==
            [self |-> this, manager |-> manager,
             record |-> ExecutionRecord(ticker, signal, "REJECTED", why, Omitted)]
        Kept(this, portfolio, status, why) ==
            LET record == ExecutionRecord(ticker, signal, status, why, Given(quantity))
            IN  [self |-> [this EXCEPT !.execution_history = Append(@, record)],
                 manager |-> portfolio, record |-> record]
    IN  IF self.execution_mode = "DISABLED" THEN Rejected(self, "disabled")
        ELSE IF RLt(signal.confidence, min_confidence_threshold)
        THEN Rejected(self, "low confidence")
        ELSE IF ~limits.ok THEN Rejected(limits.self, "daily limits")
        ELSE IF quantity <= 0 THEN Rejected(limits.self, "position size")
        ELSE IF signal.action = "BUY"
        THEN IF bought.result.success
             THEN Kept([limits.self EXCEPT !.daily_executions = @ + 1],
                       bought.self, "EXECUTED", "none")
             ELSE Kept(limits.self, bought.self, "FAILED", bought.result.error)
        ELSE IF signal.action = "SELL"
        THEN Kept(limits.self, manager, "FAILED", "AttributeError")
        ELSE [self |-> limits.self, manager |-> manager,
              record |-> ExecutionRecord(ticker, signal, "REJECTED", "unknown action",
                                         Given(quantity))]

\* execute_signal, a coroutine: the executor and the portfolio manager after
\* the call, and the record returned
execute_signal(self, manager, today, ticker, signal) ==
    LET limits == _check_daily_limits(self, today)
        quantity == calculate_position_size(TRUE, "instrument", 1)
        bought == buy_stock(manager, today, ticker, quantity, Omitted)
        Rejected(this, why) ==
            [self |-> this, manager |-> manager,
             record |-> ExecutionRecord(ticker, signal, "REJECTED", why, Omitted)]
        Kept(this, portfolio, status, why) ==
            LET record == ExecutionRecord(ticker, signal, status, why, Given(quantity))
            IN  [self |-> [this EXCEPT !.execution_history = Append(@, record)],
                 manager |-> portfolio, record |-> record]
    IN  IF self.execution_mode = "DISABLED" THEN Rejected(self, "disabled")
        ELSE IF ticker \notin self.enabled_tickers THEN Rejected(self, "ticker not enabled")
        ELSE IF RLt(signal.confidence, min_confidence_threshold)
        THEN Rejected(self, "low confidence")
        ELSE IF ~limits.ok THEN Rejected(limits.self, "daily limits")
        ELSE IF quantity <= 0 THEN Rejected(limits.self, "position size")
        ELSE IF signal.action = "BUY"
        THEN IF bought.result.success
             THEN Kept([limits.self EXCEPT !.daily_executions = @ + 1],
                       bought.self, "EXECUTED", "none")
             ELSE Kept(limits.self, bought.self, "FAILED", bought.result.error)
        ELSE IF signal.action = "SELL"
        THEN Kept(limits.self, manager, "FAILED", "AttributeError")
        ELSE [self |-> limits.self, manager |-> manager,
              record |-> ExecutionRecord(ticker, signal, "REJECTED", "unknown action",
                                         Given(quantity))]

(***************************************************************************)
(* StrategyStateManager (src/strategy_state_manager.py)                    *)
(***************************************************************************)
\* _create_empty_state: state["strategies"]
NoStrategies == [id \in {} |-> 0]

start_strategy(state, strategy_id, tickers) ==
    LET known == IF strategy_id \in DOMAIN state THEN state
                 ELSE [id \in DOMAIN state \cup {strategy_id} |->
                          IF id = strategy_id
                          THEN [active_tickers |-> {}, status |-> "active"]
                          ELSE state[id]]
    IN  [known EXCEPT ![strategy_id].active_tickers = @ \cup tickers]

\* stop_strategy; tickers is Omitted to stop the strategy as a whole
stop_strategy(state, strategy_id, tickers) ==
    IF strategy_id \notin DOMAIN state THEN state
    ELSE IF tickers.kind = "None"
    THEN [state EXCEPT ![strategy_id].active_tickers = {},
                            ![strategy_id].status = "stopped"]
    ELSE [state EXCEPT ![strategy_id].active_tickers = @ \ tickers.value]

clear_all_strategies(state) == NoStrategies

\* the state that get_all_active_strategies returns
get_all_active_strategies(state) ==
    {id \in DOMAIN state :
        state[id].status # "stopped" /\ state[id].active_tickers # {}}

\* is_strategy_active; ticker is Omitted to ask for the strategy as a whole
is_strategy_active(state, strategy_id, ticker) ==
    IF strategy_id \notin DOMAIN state THEN FALSE
    ELSE IF state[strategy_id].status = "stopped" THEN FALSE
    ELSE IF ticker.kind = "None" THEN state[strategy_id].active_tickers # {}
    ELSE ticker.value \in state[strategy_id].active_tickers

(***************************************************************************)
(* Signal histories of StrategyEngine and TradingEngine                    *)
(***************************************************************************)
signal_history_limit == 1000

\* the signals among the outcomes of one round, numbered from `issued` + 1
RECURSIVE NewSignals(_, _)
NewSignals(outcomes, issued) ==
    IF outcomes = <<>> THEN <<>>
    ELSE IF outcomes[1] = "signal"
    THEN <<issued + 1>> \o NewSignals(Tail(outcomes), issued + 1)
    ELSE NewSignals(Tail(outcomes), issued)

\* StrategyEngine.generate_signals_for_ticker: every signal is appended and
\* the history is cut to its last 1000 entries
RECURSIVE generate_signals_for_ticker(_, _)
generate_signals_for_ticker(signal_history, signals) ==
    IF signals = <<>> THEN signal_history
    ELSE LET appended == Append(signal_history, signals[1])
             kept == IF Len(appended) > signal_history_limit
                     THEN SubSeq(appended, Len(appended) - signal_history_limit + 1,
                                 Len(appended))
                     ELSE appended
         IN  generate_signals_for_ticker(kept, Tail(signals))

\* TradingEngine.scan_market: every signal is appended
scan_market(signals_history, signals) == signals_history \o signals

(***************************************************************************)
(* Inputs                                                                  *)
(***************************************************************************)
MaxLen == 4
MaxPeriod == 3
PriceVals == {-1, 0, 1, 2}

RECURSIVE SeqsUpTo(_, _)
SeqsUpTo(S, n) ==
    IF n = 0 THEN {<<>>}
    ELSE LET shorter == SeqsUpTo(S, n - 1)
         IN  shorter \cup {Append(s, x) : s \in {t \in shorter : Len(t) = n - 1}, x \in S}

ToRats(xs) == [i \in 1 .. Len(xs) |-> I2R(xs[i])]

PriceSeqs == {ToRats(s) : s \in SeqsUpTo(PriceVals, MaxLen)}
Periods == 0 .. MaxPeriod
StdDevs == {-1, 0, 1, 2}

Trends == {"BULLISH", "BEARISH", "BULLISH_CROSSOVER", "BEARISH_CROSSOVER", "NEUTRAL"}
Positions == {"ABOVE_UPPER", "BELOW_LOWER", "UPPER_HALF", "LOWER_HALF", "MIDDLE"}
Comparisons == {"ABOVE", "BELOW"}

\* rsi values: every integer of [0, 100] and thirds around the thresholds
RsiVals == {I2R(n) : n \in 0 .. 100} \cup {Rat(n, 3) : n \in {89, 91, 209, 211}}

\* scores: hundredths of [-1, 1] in steps of 0.05, and the neighbours of the thresholds
ScoreVals ==
    {Rat(5 * n, 100) : n \in -20 .. 20}
    \cup {Rat(n, 100) : n \in {-61, -59, -21, -19, 19, 21, 59, 61}}

\* price histories: n prices, all equal to c except the last two
History(c, n, d1, d2) ==
    [i \in 1 .. n |-> IF i = n THEN I2R(c + d2) ELSE IF i = n - 1 THEN I2R(c + d1) ELSE I2R(c)]

DataLens == {2, 49, 50, 51, 99, 100}
TailMoves == -2 .. 2
Histories == {<<>>} \cup {History(3, n, d1, d2) : n \in DataLens, d1 \in TailMoves, d2 \in TailMoves}
TickerData ==
    [kind : {"dict"}, price_history : Histories, current_price : {I2R(2), I2R(3), I2R(4)}]

\* results of the technical provider, as _combine_signals reads them
TechLabels == {"STRONG_BUY", "BUY", "NEUTRAL_BULLISH", "HOLD", "NEUTRAL_BEARISH", "SELL",
               "STRONG_SELL", "UNKNOWN"}
TechScores == {I2R(-1), Rat(-1, 2), I2R(0), Rat(1, 2), I2R(1)}
ConfVals == {I2R(0), Rat(1, 2), I2R(1)}
TechnicalResults ==
    {None} \cup
    [kind : {"dict"}, success : BOOLEAN,
     overall_signal : [signal : TechLabels, score : TechScores, confidence : ConfVals]]

\* results of the news provider
SentimentVals == {I2R(-1), Rat(-1, 2), Rat(-33, 100), I2R(0), Rat(33, 100), Rat(1, 2), I2R(1)}
NewsResults ==
    {None} \cup
    [kind : {"dict"}, success : BOOLEAN,
     sentiment : {None} \cup
                 [kind : {"dict"}, sentiment_score : SentimentVals, confidence : ConfVals]]

\* answers of the technical analyzer, as generate_trading_signal reads them
EngineTechnicalResults ==
    {None, Raised} \cup
    [kind : {"dict"}, success : BOOLEAN, combined_signal : TechScores,
     rsi_signal : BOOLEAN, macd_signal : BOOLEAN]

(***************************************************************************)
(* Behaviour: a request is pending (pc = "call"), the operation it names   *)
(* runs to completion, and its outcome is observed (pc = "return").        *)
(***************************************************************************)
SmaRequests ==
    [fn : {"calculate_sma"}, prices : PriceSeqs, period : Periods]

EmaRequests ==
    [fn : {"calculate_ema"}, prices : PriceSeqs, period : Periods]

\* the default period of calculate_rsi on series of 14, 15 and 16 prices
RsiHistories ==
    {History(c, n, d1, d2) : c \in {0, 3}, n \in {14, 15, 16},
                             d1 \in TailMoves, d2 \in TailMoves}

\* n prices that rise (s = 1) or fall (s = -1) by 2 or 3 at every step
Ramp(c, n, s, m) == [i \in 1 .. n |-> I2R(c + s * (2 * i + ((i * m) % 2)))]

RsiRamps == {Ramp(50, n, s, m) : n \in {14, 15, 16}, s \in {-1, 1}, m \in {0, 1}}

\* the series of the RSI unit test
RsiFixture ==
    ToRats(<<100, 102, 101, 103, 105, 104, 106, 108, 107, 109, 111, 110, 112, 114, 113>>)

RsiRequests ==
    [fn : {"calculate_rsi"}, prices : PriceSeqs, period : (-2 .. -1) \cup Periods]
    \cup [fn : {"calculate_rsi"},
          prices : RsiHistories \cup RsiRamps \cup {RsiFixture}, period : {14}]

\* the default periods of calculate_macd on series of 34, 35 and 36 prices
MacdHistories ==
    {History(3, n, d1, d2) : n \in {34, 35, 36}, d1 \in TailMoves, d2 \in TailMoves}

MacdRequests ==
    [fn : {"calculate_macd"}, prices : PriceSeqs,
     fast : Periods, slow : Periods, signal : Periods]
    \cup [fn : {"calculate_macd"}, prices : MacdHistories,
          fast : {12}, slow : {26}, signal : {9}]

\* the default period of calculate_bollinger_bands on series of 19, 20 and 21 prices
BollingerHistories ==
    {History(100, n, d1, d2) : n \in {19, 20, 21}, d1 \in TailMoves, d2 \in TailMoves}

BollingerRequests ==
    [fn : {"calculate_bollinger_bands"}, prices : PriceSeqs,
     period : Periods, std_dev : StdDevs]
    \cup [fn : {"calculate_bollinger_bands"}, prices : BollingerHistories,
          period : {20}, std_dev : {2}]

\* MACD and signal series as calculate_macd hands them to _determine_macd_trend:
\* the signal series is not the longer one, the histogram is the last difference
TrendVals == {-1, 0, 1}
TrendSeries == {ToRats(xs) : xs \in SeqsUpTo(TrendVals, 3) \ {<<>>}}

TrendRequests ==
    {[fn |-> "_determine_macd_trend", macd_values |-> p[1], signal_values |-> p[2],
      histogram |-> RSub(Last(p[1]), Last(p[2]))] :
        p \in {q \in TrendSeries \X TrendSeries : Len(q[2]) <= Len(q[1])}}

ScoreRequests ==
    [fn : {"_calculate_signal_score"}, rsi : RsiVals, macd : [trend : Trends],
     price_vs_sma20 : Comparisons, price_vs_sma50 : Comparisons,
     bollinger : [position : Positions]]

\* RSI values around the thresholds of _calculate_confidence, MACD results
\* with and without a trend, history lengths around 50 and 100
ConfidenceRsi == RsiVals \cup {Rat(n, 2) : n \in {49, 51, 69, 71, 129, 131, 149, 151}}
ConfidenceMacd == [trend : Trends] \cup {[histogram |-> I2R(0)]}
ConfidencePoints == {0, 49, 50, 51, 99, 100, 101}

ConfidenceRequests ==
    [fn : {"_calculate_confidence"}, rsi : ConfidenceRsi, macd : ConfidenceMacd,
     data_points : ConfidencePoints]

\* two independent calls of _get_signal_label
LabelRequests ==
    [fn : {"_get_signal_label"}, score1 : ScoreVals, score2 : ScoreVals]

\* histories of one price c, the current price being c as well
FlatPrices == {1, 3, 250}
FlatLens == {50, 64, 200}
FlatTickerData ==
    {[kind |-> "dict", price_history |-> History(c, n, 0, 0), current_price |-> I2R(c)] :
        c \in FlatPrices, n \in FlatLens}

AnalyzeRequests ==
    [fn : {"analyze_ticker"}, ticker_data : {None, Raised} \cup TickerData \cup FlatTickerData]

CombineRequests ==
    [fn : {"_combine_signals"}, technical_result : TechnicalResults,
     news_result : NewsResults]

GenerateRequests ==
    [fn : {"generate_combined_signal"},
     technical_outcome : {Raised} \cup TechnicalResults,
     news_outcome : {Raised} \cup NewsResults]

TradingSignalRequests ==
    [fn : {"generate_trading_signal"}, technical_result : EngineTechnicalResults,
     news_result : {Raised} \cup NewsResults]

Requests ==
    SmaRequests \cup EmaRequests \cup RsiRequests \cup MacdRequests
    \cup BollingerRequests \cup ScoreRequests \cup LabelRequests
    \cup AnalyzeRequests \cup CombineRequests \cup GenerateRequests
    \cup TradingSignalRequests \cup TrendRequests \cup ConfidenceRequests

Returns(r) ==
    /\ pc' = "return"
    /\ ret' = r.val
    /\ exc' = r.exc
    /\ UNCHANGED args
    /\ UNCHANGED objects

\* the trading objects as constructed, on day 1
\* SignalGenerator.__init__: the attributes that hold data
SignalGenerator == [weights |-> weights]

Constructed ==
    /\ portfolio_manager = PortfolioManager(Omitted)
    /\ now = 1
    /\ executor = StrategyExecutor(1)
    /\ strategies = NoStrategies
    /\ engine = [signal_history |-> <<>>, signals_history |-> <<>>]
    /\ session = [self |-> SignalGenerator, calls |-> <<>>]

Init ==
    /\ pc = "call"
    /\ args \in Requests
    /\ ret = <<>>
    /\ exc = "none"
    /\ Constructed

CallSma ==
    /\ pc = "call"
    /\ args.fn = "calculate_sma"
    /\ Returns(calculate_sma(args.prices, args.period))

CallEma ==
    /\ pc = "call"
    /\ args.fn = "calculate_ema"
    /\ Returns(calculate_ema(args.prices, args.period))

CallRsi ==
    /\ pc = "call"
    /\ args.fn = "calculate_rsi"
    /\ Returns(calculate_rsi(args.prices, args.period))

CallMacd ==
    /\ pc = "call"
    /\ args.fn = "calculate_macd"
    /\ Returns(calculate_macd(args.prices, args.fast, args.slow, args.signal))

CallBollinger ==
    /\ pc = "call"
    /\ args.fn = "calculate_bollinger_bands"
    /\ Returns(calculate_bollinger_bands(args.prices, args.period, args.std_dev))

CallScore ==
    /\ pc = "call"
    /\ args.fn = "_calculate_signal_score"
    /\ Returns(Val(_calculate_signal_score(args.rsi, args.macd, args.price_vs_sma20,
                                           args.price_vs_sma50, args.bollinger)))

CallLabel ==
    /\ pc = "call"
    /\ args.fn = "_get_signal_label"
    /\ Returns(Val(<<_get_signal_label(args.score1), _get_signal_label(args.score2)>>))

CallAnalyze ==
    /\ pc = "call"
    /\ args.fn = "analyze_ticker"
    /\ Returns(Val(analyze_ticker(args.ticker_data)))

CallCombine ==
    /\ pc = "call"
    /\ args.fn = "_combine_signals"
    /\ Returns(Val(_combine_signals(args.technical_result, args.news_result)))

CallGenerate ==
    /\ pc = "call"
    /\ args.fn = "generate_combined_signal"
    /\ Returns(Val(generate_combined_signal(args.technical_outcome, args.news_outcome)))

CallTradingSignal ==
    /\ pc = "call"
    /\ args.fn = "generate_trading_signal"
    /\ Returns(Val(generate_trading_signal(args.technical_result, args.news_result)))

CallTrend ==
    /\ pc = "call"
    /\ args.fn = "_determine_macd_trend"
    /\ Returns(Val(_determine_macd_trend(args.histogram, args.macd_values,
                                         args.signal_values)))

CallConfidence ==
    /\ pc = "call"
    /\ args.fn = "_calculate_confidence"
    /\ Returns(Val(_calculate_confidence(args.rsi, args.macd, args.data_points)))

Next ==
    \/ CallSma
    \/ CallEma
    \/ CallRsi
    \/ CallMacd
    \/ CallBollinger
    \/ CallScore
    \/ CallLabel
    \/ CallAnalyze
    \/ CallCombine
    \/ CallGenerate
    \/ CallTradingSignal
    \/ CallTrend
    \/ CallConfidence

Spec == Init /\ [][Next]_vars

(***************************************************************************)
(* Behaviour of a PortfolioManager: purchases follow one another, the days *)
(* pass.                                                                   *)
(***************************************************************************)
MaxTrades == 5
MaxVaried == 2
MaxDay == 2
MaxLeak == 40000
MaxPositiveTrades == 21
MaxPositiveDay == 5

Tickers == {"SBER", "GAZP"}
InitialBalances == {Omitted, Given(2000000)}

\* quantity and price of an order; the price may be left to the market
Orders ==
    {[quantity |-> -1, price |-> Given(I2R(30000))],
     [quantity |-> 0, price |-> Given(I2R(30000))],
     [quantity |-> 1, price |-> Given(I2R(30000))],
     [quantity |-> 2, price |-> Given(I2R(30000))],
     [quantity |-> 1, price |-> Given(I2R(2000000))],
     [quantity |-> 1, price |-> Omitted]}

\* the order that is repeated once MaxVaried trades are recorded
PlainOrder == [quantity |-> 1, price |-> Given(I2R(30000))]

\* orders of a positive quantity at a positive price
PositiveOrders ==
    {[quantity |-> 1, price |-> Given(I2R(30000))],
     [quantity |-> 1, price |-> Given(I2R(49000))],
     [quantity |-> 2, price |-> Given(I2R(30000))],
     [quantity |-> 1, price |-> Given(I2R(2000000))]}

\* the positive order that is repeated once MaxVaried trades are recorded
LargeOrder == [quantity |-> 1, price |-> Given(I2R(49000))]

\* total costs handed to _validate_purchase
TotalCosts == {Rat(-30015, 1), Rat(30015, 1), Rat(60030, 1), Rat(2001000, 1)}

\* quantity * price + commission of a recorded trade
trade_cost(trade) == RAdd(RMul(I2R(trade.quantity), trade.price), trade.commission)

\* the cash that left the balance without a recorded trade
Leak(self) ==
    RSub(RSub(self.initial_balance,
              RSum([i \in 1 .. Len(self.trades) |-> trade_cost(self.trades[i])])),
         self.cash_balance)

PortfolioInit ==
    /\ pc = "return"
    /\ args \in [fn : {"PortfolioManager"}, initial_balance : InitialBalances]
    /\ ret = <<>>
    /\ exc = "none"
    /\ portfolio_manager = PortfolioManager(args.initial_balance)
    /\ now = 1
    /\ executor = StrategyExecutor(1)
    /\ strategies = NoStrategies
    /\ engine = [signal_history |-> <<>>, signals_history |-> <<>>]
    /\ session = [self |-> SignalGenerator, calls |-> <<>>]

\* one call of buy_stock with an order of the menu; at most `most` trades are
\* recorded, and after MaxVaried of them only the order `plain` for SBER is placed
BuyStockFrom(menu, plain, most) ==
    \E ticker \in Tickers, order \in menu :
        LET call == buy_stock(portfolio_manager, now, ticker, order.quantity, order.price)
        IN  /\ Len(call.self.trades) <= most
            /\ Len(portfolio_manager.trades) >= MaxVaried =>
                   ticker = "SBER" /\ order = plain
            /\ RLe(Leak(call.self), I2R(MaxLeak))
            /\ RGe(Leak(call.self), I2R(-MaxLeak))
            /\ pc' = "return"
            /\ args' = [fn |-> "buy_stock", ticker |-> ticker,
                        quantity |-> order.quantity, price |-> order.price]
            /\ ret' = call.result
            /\ exc' = "none"
            /\ portfolio_manager' = call.self
            /\ UNCHANGED <<now, executor, strategies, engine, session>>

BuyStock == BuyStockFrom(Orders, PlainOrder, MaxTrades)

BuyPositive == BuyStockFrom(PositiveOrders, LargeOrder, MaxPositiveTrades)

\* one call of _validate_purchase on the portfolio as it stands
ValidatePurchase ==
    \E ticker \in Tickers, total_cost \in TotalCosts :
        /\ pc' = "return"
        /\ args' = [fn |-> "_validate_purchase", ticker |-> ticker, quantity |-> 1,
                    price |-> total_cost, total_cost |-> total_cost, today |-> now]
        /\ ret' = _validate_purchase(portfolio_manager, now, ticker, 1, total_cost,
                                     total_cost)
        /\ exc' = "none"
        /\ UNCHANGED objects

\* midnight, on the days before `last`
Midnight(last) ==
    /\ now < last
    /\ now' = now + 1
    /\ UNCHANGED <<pc, args, ret, exc, portfolio_manager, executor, strategies, engine, session>>

NextDay == Midnight(MaxDay)

\* the day ends once its trades are used up
NextPositiveDay ==
    /\ today_trades(portfolio_manager, now) >= max_daily_trades
    /\ Midnight(MaxPositiveDay)

PortfolioNext ==
    \/ BuyStock
    \/ ValidatePurchase
    \/ NextDay

SpecPortfolio == PortfolioInit /\ [][PortfolioNext]_vars

PositiveNext ==
    \/ BuyPositive
    \/ NextPositiveDay

SpecPositiveBuys == PortfolioInit /\ [][PositiveNext]_vars

(***************************************************************************)
(* Behaviour of a StrategyStateManager: strategies are started, stopped    *)
(* and asked about in any order.                                           *)
(***************************************************************************)
StrategyIds == {"rsi_mean_reversion", "macd_trend_following"}

StrategiesInit ==
    /\ pc = "return"
    /\ args = [fn |-> "StrategyStateManager"]
    /\ ret = <<>>
    /\ exc = "none"
    /\ Constructed

StartStrategy ==
    \E strategy_id \in StrategyIds, tickers \in SUBSET Tickers :
        /\ pc' = "return"
        /\ args' = [fn |-> "start_strategy", strategy_id |-> strategy_id,
                    tickers |-> tickers]
        /\ ret' = <<>>
        /\ exc' = "none"
        /\ strategies' = start_strategy(strategies, strategy_id, tickers)
        /\ UNCHANGED <<portfolio_manager, now, executor, engine, session>>

StopStrategy ==
    \E strategy_id \in StrategyIds,
       tickers \in {Omitted} \cup {Given(t) : t \in SUBSET Tickers} :
        /\ pc' = "return"
        /\ args' = [fn |-> "stop_strategy", strategy_id |-> strategy_id,
                    tickers |-> tickers]
        /\ ret' = <<>>
        /\ exc' = "none"
        /\ strategies' = stop_strategy(strategies, strategy_id, tickers)
        /\ UNCHANGED <<portfolio_manager, now, executor, engine, session>>

ClearAllStrategies ==
    /\ pc' = "return"
    /\ args' = [fn |-> "clear_all_strategies"]
    /\ ret' = <<>>
    /\ exc' = "none"
    /\ strategies' = clear_all_strategies(strategies)
    /\ UNCHANGED <<portfolio_manager, now, executor, engine, session>>

IsStrategyActive ==
    \E strategy_id \in StrategyIds,
       ticker \in {Omitted} \cup {Given(t) : t \in Tickers} :
        /\ pc' = "return"
        /\ args' = [fn |-> "is_strategy_active", strategy_id |-> strategy_id,
                    ticker |-> ticker]
        /\ ret' = is_strategy_active(strategies, strategy_id, ticker)
        /\ exc' = "none"
        /\ UNCHANGED objects

GetAllActiveStrategies ==
    /\ pc' = "return"
    /\ args' = [fn |-> "get_all_active_strategies"]
    /\ ret' = get_all_active_strategies(strategies)
    /\ exc' = "none"
    /\ UNCHANGED objects

StrategiesNext ==
    \/ StartStrategy
    \/ StopStrategy
    \/ ClearAllStrategies
    \/ IsStrategyActive
    \/ GetAllActiveStrategies

SpecStrategies == StrategiesInit /\ [][StrategiesNext]_vars

(***************************************************************************)
(* Behaviour of the signal histories: an engine is constructed and asked   *)
(* for signals again and again.  A signal is written as its serial number. *)
(***************************************************************************)
MaxSignals == 1003

\* what the two default strategies make of a ticker: a signal, nothing, or
\* an exception that is logged
StrategyOutcomes ==
    {<<first, second>> : first \in {"signal", "none", "error"},
                         second \in {"signal", "none"}}

\* what generate_trading_signal makes of the five tickers of the watchlist
ScanOutcomes ==
    {<<"signal", "signal", "signal", "signal", "signal">>,
     <<"signal", "none", "error", "signal", "signal">>,
     <<"none", "none", "signal", "none", "none">>,
     <<"none", "error", "none", "none", "none">>}

\* the serial number of the last signal of a history
Issued(history) == IF history = <<>> THEN 0 ELSE history[Len(history)]

HistoriesInit ==
    /\ pc = "return"
    /\ args \in [fn : {"StrategyEngine", "TradingEngine"}]
    /\ ret = <<>>
    /\ exc = "none"
    /\ Constructed

GenerateSignalsForTicker ==
    \E ticker \in Tickers, outcomes \in StrategyOutcomes :
        LET signals == NewSignals(outcomes, Issued(engine.signal_history))
        IN  /\ args.fn \in {"StrategyEngine", "generate_signals_for_ticker"}
            /\ Issued(engine.signal_history) + Len(signals) <= MaxSignals
            /\ pc' = "return"
            /\ args' = [fn |-> "generate_signals_for_ticker", ticker |-> ticker]
            /\ ret' = signals
            /\ exc' = "none"
            /\ engine' = [engine EXCEPT !.signal_history =
                              generate_signals_for_ticker(@, signals)]
            /\ UNCHANGED <<portfolio_manager, now, executor, strategies, session>>

ScanMarket ==
    \E outcomes \in ScanOutcomes :
        LET signals == NewSignals(outcomes, Issued(engine.signals_history))
        IN  /\ args.fn \in {"TradingEngine", "scan_market"}
            /\ Issued(engine.signals_history) + Len(signals) <= MaxSignals
            /\ pc' = "return"
            /\ args' = [fn |-> "scan_market"]
            /\ ret' = signals
            /\ exc' = "none"
            /\ engine' = [engine EXCEPT !.signals_history = scan_market(@, signals)]
            /\ UNCHANGED <<portfolio_manager, now, executor, strategies, session>>

HistoriesNext ==
    \/ GenerateSignalsForTicker
    \/ ScanMarket

SpecHistories == HistoriesInit /\ [][HistoriesNext]_vars

(***************************************************************************)
(* Behaviour of a StrategyExecutor: automatic trading is switched on and   *)
(* off, tickers are enabled and removed, signals arrive, the days pass.    *)
(***************************************************************************)
ExecutionModes == {"DISABLED", "MANUAL_APPROVAL", "AUTOMATIC"}

\* tickers as the callers write them
WrittenTickers == {"SBER", "sber", "GAZP"}

Signals ==
    [action : {"BUY", "SELL", "HOLD"}, confidence : {Rat(69, 100), Rat(7, 10), Rat(9, 10)}]

ExecutorInit ==
    /\ pc = "return"
    /\ args = [fn |-> "StrategyExecutor"]
    /\ ret = <<>>
    /\ exc = "none"
    /\ Constructed

EnableAutoTrading ==
    \E mode \in ExecutionModes :
        /\ pc' = "return"
        /\ args' = [fn |-> "enable_auto_trading", mode |-> mode]
        /\ ret' = TRUE
        /\ exc' = "none"
        /\ executor' = enable_auto_trading(executor, mode)
        /\ UNCHANGED <<portfolio_manager, now, strategies, engine, session>>

DisableAutoTrading ==
    /\ pc' = "return"
    /\ args' = [fn |-> "disable_auto_trading"]
    /\ ret' = TRUE
    /\ exc' = "none"
    /\ executor' = disable_auto_trading(executor)
    /\ UNCHANGED <<portfolio_manager, now, strategies, engine, session>>

AddTickerForExecution ==
    \E ticker \in WrittenTickers :
        /\ pc' = "return"
        /\ args' = [fn |-> "add_ticker_for_execution", ticker |-> ticker]
        /\ ret' = TRUE
        /\ exc' = "none"
        /\ executor' = add_ticker_for_execution(executor, ticker)
        /\ UNCHANGED <<portfolio_manager, now, strategies, engine, session>>

RemoveTickerFromExecution ==
    \E ticker \in WrittenTickers :
        /\ pc' = "return"
        /\ args' = [fn |-> "remove_ticker_from_execution", ticker |-> ticker]
        /\ ret' = TRUE
        /\ exc' = "none"
        /\ executor' = remove_ticker_from_execution(executor, ticker)
        /\ UNCHANGED <<portfolio_manager, now, strategies, engine, session>>

ExecuteSignal ==
    \E ticker \in WrittenTickers, signal \in Signals :
        LET call == execute_signal(executor, portfolio_manager, now, ticker, signal)
        IN  /\ pc' = "return"
            /\ args' = [fn |-> "execute_signal", ticker |-> ticker, signal |-> signal]
            /\ ret' = call.record
            /\ exc' = "none"
            /\ executor' = call.self
            /\ portfolio_manager' = call.manager
            /\ UNCHANGED <<now, strategies, engine, session>>

ExecutorNext ==
    \/ EnableAutoTrading
    \/ DisableAutoTrading
    \/ AddTickerForExecution
    \/ RemoveTickerFromExecution
    \/ ExecuteSignal
    \/ NextDay

SpecExecutor == ExecutorInit /\ [][ExecutorNext]_vars

(***************************************************************************)
(* A session: indicator, scoring, confidence and combining functions are   *)
(* called one after another on the same analyzer and generator, with lists *)
(* the caller keeps.                                                       *)
(***************************************************************************)
MaxCalls == 3

SessionPrices == {ToRats(<<1, 2, 1, 2>>), ToRats(<<2, 0, 2, -1>>)}

SessionRequests ==
    [fn : {"calculate_sma", "calculate_ema", "calculate_rsi"},
     prices : SessionPrices, period : {2}]
    \cup [fn : {"calculate_macd"}, prices : SessionPrices,
          fast : {1}, slow : {2}, signal : {2}]
    \cup [fn : {"calculate_bollinger_bands"}, prices : SessionPrices,
          period : {2}, std_dev : {2}]
    \cup [fn : {"_calculate_signal_score"}, rsi : {I2R(25), I2R(75)},
          macd : [trend : {"BULLISH"}], price_vs_sma20 : {"ABOVE"},
          price_vs_sma50 : {"BELOW"}, bollinger : [position : {"UPPER_HALF"}]]
    \cup [fn : {"_calculate_confidence"}, rsi : {I2R(25), I2R(50)},
          macd : [trend : {"BULLISH_CROSSOVER"}], data_points : {100}]
    \cup [fn : {"_combine_signals"},
          technical_result :
              [kind : {"dict"}, success : {TRUE},
               overall_signal : [signal : {"BUY", "SELL"}, score : {Rat(1, 2)},
                                 confidence : {Rat(1, 2)}]],
          news_result :
              [kind : {"dict"}, success : {TRUE},
               sentiment : [kind : {"dict"}, sentiment_score : {Rat(1, 2)},
                            confidence : {I2R(1)}]]]

\* what the function named in the request returns or raises
Evaluate(request) ==
    CASE request.fn = "calculate_sma" -> calculate_sma(request.prices, request.period)
      [] request.fn = "calculate_ema" -> calculate_ema(request.prices, request.period)
      [] request.fn = "calculate_rsi" -> calculate_rsi(request.prices, request.period)
      [] request.fn = "calculate_macd" ->
             calculate_macd(request.prices, request.fast, request.slow, request.signal)
      [] request.fn = "calculate_bollinger_bands" ->
             calculate_bollinger_bands(request.prices, request.period, request.std_dev)
      [] request.fn = "_calculate_signal_score" ->
             Val(_calculate_signal_score(request.rsi, request.macd, request.price_vs_sma20,
                                         request.price_vs_sma50, request.bollinger))
      [] request.fn = "_calculate_confidence" ->
             Val(_calculate_confidence(request.rsi, request.macd, request.data_points))
      [] request.fn = "_combine_signals" ->
             Val(_combine_signals(request.technical_result, request.news_result))

\* a call that answers with the result of the call of the same function before
\* it, and keeps its own result for the next one
Invoke_lagging(self, request) ==
    LET fresh == Evaluate(request)
        kept == IF "last" \in DOMAIN self THEN self.last ELSE [f \in {} |-> fresh]
        last == [f \in DOMAIN kept \cup {request.fn} |->
                    IF f = request.fn THEN fresh ELSE kept[f]]
    IN  [self |-> [weights |-> self.weights, last |-> last],
         after |-> request,
         response |-> IF request.fn \in DOMAIN kept THEN kept[request.fn] ELSE fresh]

\* a call on the objects: the objects and the arguments as the call leaves
\* them, and the response.  No function assigns to an attribute of self or
\* to an element of a list it is given.
Invoke(self, request) ==
    [self |-> self, after |-> request, response |-> Evaluate(request)]

SessionInit ==
    /\ pc = "return"
    /\ args = [fn |-> "SignalGenerator"]
    /\ ret = <<>>
    /\ exc = "none"
    /\ Constructed

\* one call of the function fn
SessionCall(fn) ==
    \E request \in SessionRequests :
        LET call == Invoke(session.self, request)
        IN  /\ request.fn = fn
            /\ Len(session.calls) < MaxCalls
            /\ pc' = "return"
            /\ args' = call.after
            /\ ret' = call.response.val
            /\ exc' = call.response.exc
            /\ session' = [self |-> call.self,
                           calls |-> Append(session.calls,
                                            [request |-> request, after |-> call.after,
                                             response |-> call.response])]
            /\ UNCHANGED <<portfolio_manager, now, executor, strategies, engine>>

SessionSma == SessionCall("calculate_sma")
SessionEma == SessionCall("calculate_ema")
SessionRsi == SessionCall("calculate_rsi")
SessionMacd == SessionCall("calculate_macd")
SessionBollinger == SessionCall("calculate_bollinger_bands")
SessionScore == SessionCall("_calculate_signal_score")
SessionConfidence == SessionCall("_calculate_confidence")
SessionCombine == SessionCall("_combine_signals")

SessionNext ==
    \/ SessionSma
    \/ SessionEma
    \/ SessionRsi
    \/ SessionMacd
    \/ SessionBollinger
    \/ SessionScore
    \/ SessionConfidence
    \/ SessionCombine

SpecSession == SessionInit /\ [][SessionNext]_vars

(***************************************************************************)
(* Properties                                                              *)
(***************************************************************************)
Returned(f) == pc = "return" /\ args.fn = f

InRange(x, lo, hi) == RLe(I2R(lo), x) /\ RLe(x, I2R(hi))

FiveLabels == {"STRONG_BUY", "BUY", "HOLD", "SELL", "STRONG_SELL"}

\* the component tables of the technical score, written out independently
C1_RsiPart(rsi) ==
    IF RLt(rsi, I2R(30)) THEN Rat(30, 100)
    ELSE IF RGt(rsi, I2R(70)) THEN Rat(-30, 100)
    ELSE RDiv(RMul(RSub(I2R(50), rsi), Rat(15, 100)), I2R(100))

C1_MacdPart(trend) ==
    CASE trend = "BULLISH_CROSSOVER" -> Rat(25, 100)
      [] trend = "BEARISH_CROSSOVER" -> Rat(-25, 100)
      [] trend = "BULLISH" -> Rat(15, 100)
      [] trend = "BEARISH" -> Rat(-15, 100)
      [] OTHER -> I2R(0)

C1_MaPart(vs20, vs50) ==
    CASE vs20 = "ABOVE" /\ vs50 = "ABOVE" -> Rat(25, 100)
      [] vs20 = "BELOW" /\ vs50 = "BELOW" -> Rat(-25, 100)
      [] vs20 = "ABOVE" /\ vs50 = "BELOW" -> Rat(10, 100)
      [] OTHER -> I2R(0)

C1_BollingerPart(position) ==
    CASE position = "BELOW_LOWER" -> Rat(20, 100)
      [] position = "ABOVE_UPPER" -> Rat(-20, 100)
      [] position = "UPPER_HALF" -> Rat(5, 100)
      [] position = "LOWER_HALF" -> Rat(-5, 100)
      [] OTHER -> I2R(0)

C1_Sum ==
    RAdd(RAdd(C1_RsiPart(args.rsi), C1_MacdPart(args.macd.trend)),
         RAdd(C1_MaPart(args.price_vs_sma20, args.price_vs_sma50),
              C1_BollingerPart(args.bollinger.position)))

\* C1: the technical score is the sum, clamped to [-1, 1], of the RSI, MACD,
\* moving-average and Bollinger components, each given by its table.
C1_ScoreIsClampedSum ==
    Returned("_calculate_signal_score") =>
        ret = (IF RLt(C1_Sum, I2R(-1)) THEN I2R(-1)
               ELSE IF RGt(C1_Sum, I2R(1)) THEN I2R(1)
               ELSE C1_Sum)

\* a score of the neutral RSI zone with the price above SMA20 only
C1_Witness ==
    /\ Returned("_calculate_signal_score")
    /\ args.rsi = I2R(40)
    /\ args.macd.trend = "BEARISH"
    /\ args.price_vs_sma20 = "ABOVE" /\ args.price_vs_sma50 = "BELOW"
    /\ args.bollinger.position = "UPPER_HALF"
    /\ ret = Rat(15, 1000)

\* the order of the five labels, and the step function of the thresholds
C2_Rank(label) ==
    CASE label = "STRONG_SELL" -> 0
      [] label = "SELL" -> 1
      [] label = "HOLD" -> 2
      [] label = "BUY" -> 3
      [] label = "STRONG_BUY" -> 4

C2_Label(score) ==
    CASE RGe(score, Rat(6, 10)) -> "STRONG_BUY"
      [] RGe(score, Rat(2, 10)) /\ RLt(score, Rat(6, 10)) -> "BUY"
      [] RLe(score, Rat(-6, 10)) -> "STRONG_SELL"
      [] RGt(score, Rat(-6, 10)) /\ RLe(score, Rat(-2, 10)) -> "SELL"
      [] OTHER -> "HOLD"

\* C2: the label is STRONG_BUY from 0.6 up, BUY on [0.2, 0.6), STRONG_SELL up to
\* -0.6, SELL on (-0.6, -0.2], HOLD in between; a larger score never gets a
\* lower label.
C2_LabelIsMonotoneStep ==
    Returned("_get_signal_label") =>
        /\ ret[1] = C2_Label(args.score1)
        /\ ret[2] = C2_Label(args.score2)
        /\ RLe(args.score1, args.score2) => C2_Rank(ret[1]) <= C2_Rank(ret[2])

\* the two closed thresholds of the upper half
C2_Witness ==
    /\ Returned("_get_signal_label")
    /\ args.score1 = Rat(2, 10) /\ ret[1] = "BUY"
    /\ args.score2 = Rat(6, 10) /\ ret[2] = "STRONG_BUY"

\* C3 (as stated): every signal of analyze_ticker has a score in [-1, 1], a
\* confidence in [0, 1] and one of the five labels.
C3_Original ==
    (Returned("analyze_ticker") /\ ret.success) =>
        /\ InRange(ret.signal.score, -1, 1)
        /\ InRange(ret.signal.confidence, 0, 1)
        /\ ret.signal.label \in FiveLabels

\* C3 (amended): every signal of analyze_ticker has a score in [-1, 1] and a
\* confidence in [0, 1]; its label is one of the five labels when at least 50
\* prices are available and INSUFFICIENT_DATA when fewer are.
C3_SignalWellFormed ==
    (Returned("analyze_ticker") /\ ret.success) =>
        /\ InRange(ret.signal.score, -1, 1)
        /\ InRange(ret.signal.confidence, 0, 1)
        /\ Len(args.ticker_data.price_history) >= 50 => ret.signal.label \in FiveLabels
        /\ Len(args.ticker_data.price_history) < 50 =>
               ret.signal.label = "INSUFFICIENT_DATA"

\* a full analysis of 100 prices whose confidence reaches the cap
C3_Witness ==
    /\ Returned("analyze_ticker")
    /\ ret.success
    /\ Len(args.ticker_data.price_history) = 100
    /\ ret.macd.trend = "BULLISH_CROSSOVER"
    /\ ret.signal.confidence = I2R(1)
    /\ ret.signal.label \in FiveLabels

\* both results are present and successful, and the technical signal carries
\* the label of its own score
C4_BothPresent ==
    /\ Succeeded(args.technical_result)
    /\ Succeeded(args.news_result) /\ IsDict(args.news_result.sentiment)

C4_WellFormedTechnical ==
    args.technical_result.overall_signal.signal
        = _get_signal_label(args.technical_result.overall_signal.score)

C4_Label(score) ==
    CASE RGe(score, Rat(12, 10)) -> "STRONG_BUY"
      [] RLt(score, Rat(12, 10)) /\ RGe(score, Rat(4, 10)) -> "BUY"
      [] RLe(score, Rat(-12, 10)) -> "STRONG_SELL"
      [] RGt(score, Rat(-12, 10)) /\ RLe(score, Rat(-4, 10)) -> "SELL"
      [] OTHER -> "HOLD"

C4_Weighted(t, n) == RAdd(RMul(Rat(6, 10), t), RMul(Rat(4, 10), n))

\* the value the combiner gives to a technical label
C4_LabelValue(label) ==
    CASE label = "STRONG_BUY" -> Rat(2, 1)
      [] label = "BUY" -> Rat(1, 1)
      [] label = "NEUTRAL_BULLISH" -> Rat(1, 2)
      [] label = "NEUTRAL_BEARISH" -> Rat(-1, 2)
      [] label = "SELL" -> Rat(-1, 1)
      [] label = "STRONG_SELL" -> Rat(-2, 1)
      [] OTHER -> Rat(0, 1)

C5_CombineScenario ==
    /\ C4_BothPresent
    /\ C4_WellFormedTechnical
    /\ args.technical_result.overall_signal.score = I2R(1)
    /\ args.technical_result.overall_signal.confidence = I2R(1)
    /\ args.news_result.sentiment.sentiment_score = I2R(-1)
    /\ args.news_result.sentiment.confidence = I2R(1)

C5_EngineScenario ==
    /\ IsDict(args.technical_result) /\ args.technical_result.success
    /\ args.technical_result.combined_signal = I2R(1)
    /\ IsDict(args.news_result) /\ args.news_result.success
    /\ IsDict(args.news_result.sentiment)
    /\ args.news_result.sentiment.sentiment_score = I2R(-1)
    /\ args.news_result.sentiment.confidence = I2R(1)

\* C5 (as stated): technical {score 1.0, confidence 1.0} combined with
\* sentiment {score -1.0, confidence 1.0} yields the combined score 0.2 and
\* the label BUY.
C5_Original ==
    /\ (Returned("_combine_signals") /\ C5_CombineScenario) =>
           /\ ret.combined_signal.score = Rat(2, 10)
           /\ ret.combined_signal.signal = "BUY"
    /\ (Returned("generate_trading_signal") /\ C5_EngineScenario) =>
           /\ ret.kind = "TradingSignal"
           /\ ret.combined_score = Rat(2, 10)
           /\ ret.direction = "BUY"

C7_Absent(result) == ~IsDict(result) \/ ~result.success

\* C7 (as stated): with the technical or the sentiment result absent the
\* combiner still returns a combined signal; with both absent it has score 0,
\* confidence 0 and the label HOLD.
C7_Original ==
    (Returned("generate_combined_signal")
     /\ (C7_Absent(args.technical_outcome) \/ C7_Absent(args.news_outcome))) =>
        /\ exc = "none"
        /\ ret.success
        /\ ret.combined_signal.signal \in FiveLabels
        /\ (C7_Absent(args.technical_outcome) /\ C7_Absent(args.news_outcome)) =>
               /\ ret.combined_signal.score = I2R(0)
               /\ ret.combined_signal.confidence = I2R(0)
               /\ ret.combined_signal.signal = "HOLD"

\* C8: below its minimum window an indicator returns its neutral value and
\* does not raise: rsi 50 with fewer than period + 1 prices; macd all zero
\* with trend NEUTRAL with fewer than slow + signal prices; bollinger bands
\* all zero with position MIDDLE with fewer than period prices.
C8_Sentinels ==
    /\ (Returned("calculate_rsi") /\ Len(args.prices) < args.period + 1) =>
           exc = "none" /\ ret = I2R(50)
    /\ (Returned("calculate_macd") /\ Len(args.prices) < args.slow + args.signal) =>
           /\ exc = "none"
           /\ ret.macd_line = I2R(0) /\ ret.signal_line = I2R(0)
           /\ ret.histogram = I2R(0) /\ ret.trend = "NEUTRAL"
    /\ (Returned("calculate_bollinger_bands") /\ Len(args.prices) < args.period) =>
           /\ exc = "none"
           /\ ret.upper_band = SurdZero /\ ret.middle_band = I2R(0)
           /\ ret.lower_band = SurdZero /\ ret.bandwidth = SurdZero
           /\ ret.position = "MIDDLE"

\* three prices against slow = 2 and signal = 2
C8_Witness ==
    /\ Returned("calculate_macd")
    /\ Len(args.prices) = 3
    /\ args.fast = 1 /\ args.slow = 2 /\ args.signal = 2
    /\ ret.trend = "NEUTRAL"
    /\ ret.macd_line = I2R(0)

C9_Indicators ==
    {"calculate_sma", "calculate_ema", "calculate_rsi", "calculate_macd",
     "calculate_bollinger_bands"}

C9_PeriodsPositive ==
    IF args.fn = "calculate_macd"
    THEN args.fast >= 1 /\ args.slow >= 1 /\ args.signal >= 1
    ELSE args.period >= 1

\* C9: no indicator raises for a non-empty price sequence and periods >= 1,
\* macd with fast > slow and bollinger bands on a window of mean 0 included.
C9_IndicatorsTotal ==
    (pc = "return" /\ args.fn \in C9_Indicators
     /\ args.prices # <<>> /\ C9_PeriodsPositive) =>
        exc = "none"

\* macd with fast > slow on enough prices: the fast EMA is the shorter one
C9_Witness ==
    /\ Returned("calculate_macd")
    /\ args.fast = 3 /\ args.slow = 1 /\ args.signal = 1
    /\ Len(args.prices) = 4
    /\ exc = "none"
    /\ ret = NeutralMacd

\* the last period price changes of the request
C10_RecentChanges ==
    {RSub(args.prices[i + 1], args.prices[i]) :
        i \in (Len(args.prices) - args.period) .. (Len(args.prices) - 1)}

\* C10: when the last period price changes contain no loss, rsi is 100 if
\* they contain a gain and 50 if they contain none; a constant series of at
\* least 15 prices has rsi 50.
C10_RsiWithoutLoss ==
    (Returned("calculate_rsi") /\ args.period >= 1
     /\ Len(args.prices) >= args.period + 1
     /\ \A d \in C10_RecentChanges : RGe(d, I2R(0))) =>
        /\ exc = "none"
        /\ ret = (IF \E d \in C10_RecentChanges : RGt(d, I2R(0))
                  THEN I2R(100) ELSE I2R(50))

\* a constant series of 15 prices under the default period
C10_Witness ==
    /\ Returned("calculate_rsi")
    /\ args.period = 14
    /\ Len(args.prices) = 15
    /\ \A i \in 1 .. 15 : args.prices[i] = I2R(3)
    /\ ret = I2R(50)

C11_Increasing(xs) == \A i \in 1 .. (Len(xs) - 1) : RLt(xs[i], xs[i + 1])
C11_Decreasing(xs) == \A i \in 1 .. (Len(xs) - 1) : RGt(xs[i], xs[i + 1])

\* C11: the rsi of a strictly increasing series of more than period prices
\* (at least 15 for the default period 14) is above 50, and that of a strictly
\* decreasing one is below 50.
C11_RsiFollowsDirection ==
    (Returned("calculate_rsi") /\ args.period >= 1
     /\ Len(args.prices) >= args.period + 1) =>
        /\ C11_Increasing(args.prices) => RGt(ret, I2R(50))
        /\ C11_Decreasing(args.prices) => RLt(ret, I2R(50))

\* sixteen falling prices under the default period
C11_Witness ==
    /\ Returned("calculate_rsi")
    /\ args.period = 14
    /\ Len(args.prices) = 16
    /\ C11_Decreasing(args.prices)
    /\ ret = I2R(0)

\* C12: rsi is within [0, 100] for every price series and every period, and
\* the call does not raise.
C12_RsiInRange ==
    Returned("calculate_rsi") => exc = "none" /\ InRange(ret, 0, 100)

\* a negative period: the averages run over all but the first change
C12_Witness ==
    /\ Returned("calculate_rsi")
    /\ args.period = -1
    /\ Len(args.prices) = 4
    /\ RGt(ret, I2R(50)) /\ RLt(ret, I2R(100))

\* C13 (as stated): for the fifteen prices 100, 102, 101, ... 114, 113 and
\* period 14 rsi is 100 - 100 / (1 + avg_gain / avg_loss) over the fourteen
\* changes, and lies between 70.5 and 71.5.
C13_Original ==
    (Returned("calculate_rsi") /\ args.prices = RsiFixture /\ args.period = 14) =>
        /\ ret = RSub(I2R(100),
                      RDiv(I2R(100), RAdd(I2R(1), RDiv(Rat(18, 14), Rat(5, 14)))))
        /\ RLe(Rat(705, 10), ret) /\ RLe(ret, Rat(715, 10))

\* C13 (amended): for that series the fourteen changes are nine gains of 2 and
\* five losses of 1, so rsi is 100 - 100 / (1 + (18/14) / (5/14)) = 1800/23,
\* which lies between 78.2 and 78.3.
C13_FixtureValue ==
    (Returned("calculate_rsi") /\ args.prices = RsiFixture /\ args.period = 14) =>
        /\ ret = RSub(I2R(100),
                      RDiv(I2R(100), RAdd(I2R(1), RDiv(Rat(18, 14), Rat(5, 14)))))
        /\ ret = Rat(1800, 23)
        /\ RLe(Rat(782, 10), ret) /\ RLe(ret, Rat(783, 10))

C13_Witness ==
    /\ Returned("calculate_rsi")
    /\ args.prices = RsiFixture
    /\ args.period = 14
    /\ ret = Rat(1800, 23)

\* the arithmetic mean of xs[lo .. hi]
RECURSIVE C14_Total(_, _, _)
C14_Total(xs, lo, hi) == IF lo > hi THEN I2R(0) ELSE RAdd(C14_Total(xs, lo, hi - 1), xs[hi])

C14_Mean(xs, lo, hi) == RDiv(C14_Total(xs, lo, hi), I2R(hi - lo + 1))

\* C14: for a period >= 1, sma returns the empty sequence when there are fewer
\* than period prices and otherwise len - period + 1 values, the i-th being
\* the mean of the period prices that start at position i.
C14_SmaIsWindowMean ==
    (Returned("calculate_sma") /\ args.period >= 1) =>
        /\ exc = "none"
        /\ Len(args.prices) < args.period => ret = <<>>
        /\ Len(args.prices) >= args.period =>
               /\ Len(ret) = Len(args.prices) - args.period + 1
               /\ \A i \in 1 .. Len(ret) :
                      ret[i] = C14_Mean(args.prices, i, i + args.period - 1)

\* four prices under period 3: two windows
C14_Witness ==
    /\ Returned("calculate_sma")
    /\ args.period = 3
    /\ args.prices = ToRats(<<2, 0, 1, 2>>)
    /\ ret = <<I2R(1), I2R(1)>>

\* C15: for a period >= 1, ema returns the empty sequence when there are fewer
\* than period prices and otherwise len - period + 1 values: the mean of the
\* first period prices, then price * k + previous * (1 - k) with
\* k = 2 / (period + 1) for each later price.
C15_EmaIsRecurrence ==
    (Returned("calculate_ema") /\ args.period >= 1) =>
        /\ exc = "none"
        /\ Len(args.prices) < args.period => ret = <<>>
        /\ Len(args.prices) >= args.period =>
               LET k == Rat(2, args.period + 1)
               IN  /\ Len(ret) = Len(args.prices) - args.period + 1
                   /\ ret[1] = C14_Mean(args.prices, 1, args.period)
                   /\ \A j \in 2 .. Len(ret) :
                          ret[j] = RAdd(RMul(args.prices[args.period + j - 1], k),
                                        RMul(ret[j - 1], RSub(I2R(1), k)))

\* four prices under period 2: k = 2/3
C15_Witness ==
    /\ Returned("calculate_ema")
    /\ args.period = 2
    /\ args.prices = ToRats(<<0, 2, 1, 2>>)
    /\ ret = <<I2R(1), I2R(1), Rat(5, 3)>>

\* the MACD series of a request: fast EMA minus slow EMA at the same price
C16_FastEma == calculate_ema(args.prices, args.fast).val
C16_SlowEma == calculate_ema(args.prices, args.slow).val

C16_Series ==
    [i \in 1 .. (Len(args.prices) - args.slow + 1) |->
        RSub(C16_FastEma[i + (args.slow - args.fast)], C16_SlowEma[i])]

C16_SignalSeries == calculate_ema(C16_Series, args.signal).val

\* C16: for 1 <= fast < slow, signal >= 1 and at least slow + signal prices,
\* the MACD series pairs the fast and the slow EMA of the same price and has
\* len - slow + 1 elements; the signal line is the EMA of the series over
\* signal points; macd_line, signal_line and histogram = macd_line -
\* signal_line are the values at the last price.
C16_MacdIsAlignedDifference ==
    (Returned("calculate_macd") /\ 1 <= args.fast /\ args.fast < args.slow
     /\ args.signal >= 1 /\ Len(args.prices) >= args.slow + args.signal) =>
        /\ exc = "none"
        /\ Len(C16_SlowEma) = Len(args.prices) - args.slow + 1
        /\ Len(C16_FastEma) = Len(C16_SlowEma) + (args.slow - args.fast)
        /\ ret.macd_line = RSub(Last(C16_FastEma), Last(C16_SlowEma))
        /\ ret.macd_line = Last(C16_Series)
        /\ ret.signal_line = Last(C16_SignalSeries)
        /\ ret.histogram = RSub(ret.macd_line, ret.signal_line)

\* the default periods on 35 prices whose last one rises
C16_Witness ==
    /\ Returned("calculate_macd")
    /\ args.fast = 12 /\ args.slow = 26 /\ args.signal = 9
    /\ Len(args.prices) = 35
    /\ RGt(ret.macd_line, I2R(0))
    /\ RGt(ret.histogram, I2R(0))

\* the histogram one step before the last, given at least two signal values
C17_Previous ==
    RSub(args.macd_values[Len(args.macd_values) - 1],
         args.signal_values[Len(args.signal_values) - 1])

C17_Trends == {"BULLISH", "BEARISH", "BULLISH_CROSSOVER", "BEARISH_CROSSOVER", "NEUTRAL"}

\* C17 (as stated): the trend is BULLISH_CROSSOVER exactly when the previous
\* histogram is <= 0 and the current one > 0, BEARISH_CROSSOVER exactly when
\* the previous is > 0 and the current <= 0, and otherwise BULLISH for a
\* positive and BEARISH for a negative current histogram; it is one of the
\* five trend names.
C17_Original ==
    /\ (Returned("_determine_macd_trend") /\ Len(args.signal_values) >= 2) =>
           LET up == RLe(C17_Previous, I2R(0)) /\ RGt(args.histogram, I2R(0))
               down == RGt(C17_Previous, I2R(0)) /\ RLe(args.histogram, I2R(0))
           IN  /\ (ret = "BULLISH_CROSSOVER") <=> up
               /\ (ret = "BEARISH_CROSSOVER") <=> down
               /\ (~up /\ ~down /\ RGt(args.histogram, I2R(0))) => ret = "BULLISH"
               /\ (~up /\ ~down /\ RLt(args.histogram, I2R(0))) => ret = "BEARISH"
    /\ Returned("calculate_macd") => ret.trend \in C17_Trends

\* C17 (amended): with at least two signal values the trend is
\* BULLISH_CROSSOVER exactly when the previous histogram is <= 0 and the
\* current one > 0, BEARISH_CROSSOVER exactly when the previous is >= 0 and
\* the current < 0, and otherwise BULLISH for a positive and BEARISH for a
\* zero or negative current histogram; with a single signal value it is
\* BULLISH for a positive histogram and BEARISH otherwise; every trend of
\* calculate_macd is one of the five trend names.
C17_TrendIsCrossing ==
    /\ (Returned("_determine_macd_trend") /\ Len(args.signal_values) >= 2) =>
           LET up == RLe(C17_Previous, I2R(0)) /\ RGt(args.histogram, I2R(0))
               down == RGe(C17_Previous, I2R(0)) /\ RLt(args.histogram, I2R(0))
           IN  /\ (ret = "BULLISH_CROSSOVER") <=> up
               /\ (ret = "BEARISH_CROSSOVER") <=> down
               /\ (~up /\ ~down /\ RGt(args.histogram, I2R(0))) => ret = "BULLISH"
               /\ (~up /\ ~down /\ RLe(args.histogram, I2R(0))) => ret = "BEARISH"
    /\ (Returned("_determine_macd_trend") /\ Len(args.signal_values) < 2) =>
           ret = (IF RGt(args.histogram, I2R(0)) THEN "BULLISH" ELSE "BEARISH")
    /\ Returned("calculate_macd") => ret.trend \in C17_Trends

\* a fall after three equal prices: the previous histogram is 0, the current
\* one negative
C17_Witness ==
    /\ Returned("calculate_macd")
    /\ args.prices = ToRats(<<1, 1, 1, 0>>)
    /\ args.fast = 1 /\ args.slow = 2 /\ args.signal = 2
    /\ ret.histogram = Rat(-1, 9)
    /\ ret.trend = "BEARISH_CROSSOVER"

\* the last period prices of the request
C18_Recent ==
    [i \in 1 .. args.period |-> args.prices[Len(args.prices) - args.period + i]]

C18_Mean == RDiv(RSum(C18_Recent), I2R(args.period))

\* the population variance: the mean of the squares less the square of the mean
C18_Variance ==
    RSub(RDiv(RSum([i \in 1 .. args.period |-> RMul(C18_Recent[i], C18_Recent[i])]),
              I2R(args.period)),
         RMul(C18_Mean, C18_Mean))

\* (k * sigma) ** 2
C18_Width2 == RMul(I2R(args.std_dev * args.std_dev), C18_Variance)

C18_Bands ==
    /\ ret.middle_band = C18_Mean
    /\ ret.upper_band = Surd(C18_Mean, IF args.std_dev < 0 THEN -1 ELSE 1, C18_Width2)
    /\ ret.lower_band = Surd(C18_Mean, IF args.std_dev < 0 THEN 1 ELSE -1, C18_Width2)
    /\ args.std_dev >= 0 =>
           /\ ~GtSurd(ret.middle_band, ret.upper_band)
           /\ ~LtSurd(ret.middle_band, ret.lower_band)
    /\ (args.std_dev > 0 /\ \E i \in 1 .. args.period : C18_Recent[i] # C18_Recent[1]) =>
           /\ LtSurd(ret.middle_band, ret.upper_band)
           /\ GtSurd(ret.middle_band, ret.lower_band)

\* C18 as stated: with at least period prices the middle band is the mean of
\* the last period prices and the bands lie k * sigma above and below it,
\* strictly apart when those prices are not all equal.
C18_Original ==
    (Returned("calculate_bollinger_bands") /\ args.period >= 1 /\ args.std_dev > 0
     /\ Len(args.prices) >= args.period) => C18_Bands

\* C18: with period >= 1, at least period prices and a nonzero mean of the
\* last period prices, the middle band is that mean, upper - middle =
\* middle - lower = k * sigma with sigma the population deviation of those
\* prices, the bands are ordered for k >= 0 and strictly apart for k > 0 when
\* the prices are not all equal; with a zero mean, or period 0, the result
\* is the all-zero one with position MIDDLE.
C18_BandsAroundMean ==
    (Returned("calculate_bollinger_bands") /\ Len(args.prices) >= args.period) =>
        /\ exc = "none"
        /\ IF args.period >= 1 /\ ~RIsZero(C18_Mean) THEN C18_Bands
           ELSE ret = NeutralBollinger

\* prices 2, 0, 2, -1 with period 3 and k = 2: mean 1/3, variance 14/9
C18_Witness ==
    /\ Returned("calculate_bollinger_bands")
    /\ args.prices = ToRats(<<2, 0, 2, -1>>)
    /\ args.period = 3 /\ args.std_dev = 2
    /\ ret.middle_band = Rat(1, 3)
    /\ ret.upper_band = Surd(Rat(1, 3), 1, Rat(56, 9))
    /\ ret.lower_band = Surd(Rat(1, 3), -1, Rat(56, 9))
\* the position of the latest price against the returned bands
C19_Position ==
    LET latest == args.prices[Len(args.prices)] IN
    IF GtSurd(latest, ret.upper_band) THEN "ABOVE_UPPER"
    ELSE IF LtSurd(latest, ret.lower_band) THEN "BELOW_LOWER"
    ELSE IF RGt(latest, ret.middle_band) THEN "UPPER_HALF"
    ELSE "LOWER_HALF"

\* twenty prices of 100
C19_Flat == [i \in 1 .. 20 |-> I2R(100)]

C19_FlatCase ==
    (Returned("calculate_bollinger_bands") /\ args.prices = C19_Flat /\ args.period = 20) =>
        ret.bandwidth = SurdZero /\ ret.position = "LOWER_HALF"

\* C19 as stated: with at least period prices the position is the place of
\* the latest price against the returned bands, never MIDDLE.
C19_Original ==
    /\ (Returned("calculate_bollinger_bands") /\ args.period >= 1
        /\ Len(args.prices) >= args.period) => ret.position = C19_Position
    /\ C19_FlatCase

\* C19: with period >= 1, at least period prices and a nonzero mean of the
\* last period prices, the position is ABOVE_UPPER if the latest price is
\* strictly above the upper band, else BELOW_LOWER if strictly below the lower
\* band, else UPPER_HALF if strictly above the middle band, else LOWER_HALF;
\* with a zero mean, or period 0, it is MIDDLE; twenty prices of 100 with
\* period 20 give bandwidth 0 and LOWER_HALF.
C19_PositionAgainstBands ==
    /\ (Returned("calculate_bollinger_bands") /\ Len(args.prices) >= args.period) =>
           ret.position = IF args.period >= 1 /\ ~RIsZero(C18_Mean)
                          THEN C19_Position ELSE "MIDDLE"
    /\ C19_FlatCase

\* twenty prices of 100 with period 20: the latest price is on the middle band
C19_Witness ==
    /\ Returned("calculate_bollinger_bands")
    /\ args.prices = C19_Flat /\ args.period = 20 /\ args.std_dev = 2
    /\ ret.middle_band = I2R(100)
    /\ ret.upper_band = Surd(I2R(100), 0, I2R(0))
    /\ ret.bandwidth = SurdZero
    /\ ret.position = "LOWER_HALF"
\* the bonus for the length of the history
C20_a ==
    IF args.data_points >= 100 THEN Rat(2, 10)
    ELSE IF args.data_points >= 50 THEN Rat(1, 10) ELSE I2R(0)

\* the bonus for an extreme RSI
C20_b ==
    IF RLe(args.rsi, I2R(25)) \/ RGe(args.rsi, I2R(75)) THEN Rat(2, 10)
    ELSE IF RLe(args.rsi, I2R(35)) \/ RGe(args.rsi, I2R(65)) THEN Rat(1, 10) ELSE I2R(0)

\* the bonus for a crossover; a MACD result without a trend counts as NEUTRAL
C20_c ==
    IF "trend" \in DOMAIN args.macd
       /\ args.macd.trend \in {"BULLISH_CROSSOVER", "BEARISH_CROSSOVER"}
    THEN Rat(2, 10) ELSE I2R(0)

C20_Sum == RAdd(Rat(1, 2), RAdd(C20_a, RAdd(C20_b, C20_c)))

\* C20: the confidence is min(1.0, 0.5 + a + b + c) with a the data bonus,
\* b the RSI bonus and c the crossover bonus, and lies within [0.5, 1.0].
C20_ConfidenceIsCappedSum ==
    Returned("_calculate_confidence") =>
        /\ ret = (IF RLt(C20_Sum, I2R(1)) THEN C20_Sum ELSE I2R(1))
        /\ RGe(ret, Rat(1, 2)) /\ RLe(ret, I2R(1))

\* 100 points, RSI 75 and a crossover: the sum 1.1 is capped at 1
C20_Witness ==
    /\ Returned("_calculate_confidence")
    /\ args.data_points = 100 /\ args.rsi = I2R(75)
    /\ args.macd = [trend |-> "BULLISH_CROSSOVER"]
    /\ C20_Sum = Rat(11, 10)
    /\ ret = I2R(1)
C22_Failed ==
    /\ ret.success = FALSE
    /\ "error" \in DOMAIN ret
    /\ "signal" \notin DOMAIN ret

C22_Limited ==
    /\ ret.success = TRUE
    /\ ret.signal = [score |-> I2R(0), label |-> "INSUFFICIENT_DATA", confidence |-> Rat(1, 10)]
    /\ DOMAIN ret \cap {"rsi", "macd", "bollinger_bands", "moving_averages", "error"} = {}

C22_Scored ==
    LET prices == args.ticker_data.price_history IN
    /\ ret.success = TRUE
    /\ "error" \notin DOMAIN ret
    /\ ret.rsi.value = calculate_rsi(prices, 14).val
    /\ ret.macd = calculate_macd(prices, 12, 26, 9).val
    /\ ret.bollinger_bands = calculate_bollinger_bands(prices, 20, 2).val
    /\ ret.signal.score =
           _calculate_signal_score(ret.rsi.value, ret.macd,
                                   ret.moving_averages.price_vs_sma20,
                                   ret.moving_averages.price_vs_sma50, ret.bollinger_bands)
    /\ ret.signal.label = _get_signal_label(ret.signal.score)
    /\ ret.signal.label # "INSUFFICIENT_DATA"

\* C22: analyze_ticker never raises and has three outcomes: success = False
\* with an error field when the provider returns no data or fails; success =
\* True with score 0, confidence 0.1, label INSUFFICIENT_DATA and no
\* indicator below 50 prices; success = True with a signal scored from the
\* computed indicators from 50 prices on.
C22_ThreeOutcomes ==
    Returned("analyze_ticker") =>
        /\ exc = "none"
        /\ IF args.ticker_data \in {None, Raised} THEN C22_Failed
           ELSE IF Len(args.ticker_data.price_history) < 50 THEN C22_Limited
           ELSE C22_Scored

\* 49 prices: one short of the indicators
C22_Witness ==
    /\ Returned("analyze_ticker")
    /\ args.ticker_data \notin {None, Raised}
    /\ Len(args.ticker_data.price_history) = 49
    /\ ret.success = TRUE
    /\ ret.data_points = 49
    /\ ret.signal.label = "INSUFFICIENT_DATA"
\* at least 50 prices, all equal to the current price c > 0
C30_Flat ==
    /\ Returned("analyze_ticker")
    /\ args.ticker_data \notin {None, Raised}
    /\ Len(args.ticker_data.price_history) >= 50
    /\ RGt(args.ticker_data.current_price, I2R(0))
    /\ \A i \in 1 .. Len(args.ticker_data.price_history) :
           args.ticker_data.price_history[i] = args.ticker_data.current_price

\* C30: on a constant history of at least 50 prices c > 0 with current price
\* c, analyze_ticker finds rsi 50, a zero MACD histogram with trend BEARISH,
\* the price BELOW both SMA20 and SMA50 and Bollinger position LOWER_HALF;
\* the score is -0.45 and the label SELL.
C30_FlatMarketSells ==
    C30_Flat =>
        /\ ret.success = TRUE
        /\ ret.rsi.value = I2R(50)
        /\ ret.macd.histogram = I2R(0)
        /\ ret.macd.trend = "BEARISH"
        /\ ret.moving_averages.price_vs_sma20 = "BELOW"
        /\ ret.moving_averages.price_vs_sma50 = "BELOW"
        /\ ret.bollinger_bands.position = "LOWER_HALF"
        /\ ret.signal.score = Rat(-45, 100)
        /\ ret.signal.label = "SELL"

\* 200 prices of 250
C30_Witness ==
    /\ C30_Flat
    /\ Len(args.ticker_data.price_history) = 200
    /\ args.ticker_data.current_price = I2R(250)
    /\ ret.moving_averages.sma_50 = I2R(250)
    /\ ret.signal.score = Rat(-45, 100)
    /\ ret.signal.label = "SELL"
\* the trades recorded on the day of the call
C23_TradesToday ==
    Cardinality({i \in DOMAIN portfolio_manager.trades :
                    portfolio_manager.trades[i].day = args.today})

\* five percent of the initial balance
C23_Limit == RDiv(RMul(portfolio_manager.initial_balance, I2R(5)), I2R(100))

\* C23: _validate_purchase rejects for insufficient funds when total_cost >
\* cash_balance; otherwise for the maximum position size when total_cost >
\* initial_balance * max_position_size; otherwise when the trades recorded
\* today are >= max_daily_trades; otherwise it returns valid with reason OK.
C23_ValidationOrder ==
    Returned("_validate_purchase") =>
        ret = IF RGt(args.total_cost, portfolio_manager.cash_balance)
              THEN [valid |-> FALSE, reason |-> "insufficient funds"]
              ELSE IF RGt(args.total_cost, C23_Limit)
              THEN [valid |-> FALSE, reason |-> "maximum position size"]
              ELSE IF C23_TradesToday >= 5
              THEN [valid |-> FALSE, reason |-> "daily trades limit"]
              ELSE [valid |-> TRUE, reason |-> "OK"]

\* five trades today, and a purchase within the funds and the position size
C23_Witness ==
    /\ Returned("_validate_purchase")
    /\ C23_TradesToday = 5
    /\ args.total_cost = Rat(30015, 1)
    /\ ret = [valid |-> FALSE, reason |-> "daily trades limit"]

\* C24: after any sequence of buy_stock calls, the cost basis of every
\* position is at most five percent of the initial balance.
C24_Original ==
    \A ticker \in DOMAIN portfolio_manager.positions :
        RLe(cost_basis(portfolio_manager.positions[ticker]),
            RDiv(RMul(portfolio_manager.initial_balance, I2R(5)), I2R(100)))

\* C27: a buy_stock call that returns success False leaves cash_balance,
\* positions and trades exactly as they were before the call.
C27_Original ==
    [][(args'.fn = "buy_stock" /\ ret'.success = FALSE)
           => portfolio_manager' = portfolio_manager]_vars

\* what the first n recorded trades cost, commission included
RECURSIVE C28_Spent(_)
C28_Spent(n) ==
    IF n = 0 THEN I2R(0)
    ELSE LET trade == portfolio_manager.trades[n]
         IN  RAdd(C28_Spent(n - 1),
                  RAdd(RMul(I2R(trade.quantity), trade.price), trade.commission))

\* C28: after any sequence of buy_stock calls with positive quantity and
\* positive price on a fresh PortfolioManager, cash_balance is not negative
\* and equals initial_balance minus the sum over the recorded trades of
\* quantity * price + commission.
C28_CashIsConserved ==
    /\ RGe(portfolio_manager.cash_balance, I2R(0))
    /\ portfolio_manager.cash_balance =
           RSub(portfolio_manager.initial_balance,
                C28_Spent(Len(portfolio_manager.trades)))

\* twenty purchases of both tickers have used the cash up: the next one is
\* rejected for insufficient funds
C28_Witness ==
    /\ Returned("buy_stock")
    /\ ret = [success |-> FALSE, error |-> "insufficient funds"]
    /\ args.price = Given(I2R(49000))
    /\ Len(portfolio_manager.trades) = 20
    /\ DOMAIN portfolio_manager.positions = Tickers
    /\ RLt(portfolio_manager.cash_balance, I2R(49000))

\* C25: right after start_strategy(id, T) with a non-empty T, whatever was
\* started and stopped before, is_strategy_active(id) is True,
\* is_strategy_active(id, t) is True for every t of T, and id is among
\* get_all_active_strategies().
C25_Original ==
    (Returned("start_strategy") /\ args.tickers # {}) =>
        /\ is_strategy_active(strategies, args.strategy_id, Omitted)
        /\ \A t \in args.tickers :
               is_strategy_active(strategies, args.strategy_id, Given(t))
        /\ args.strategy_id \in get_all_active_strategies(strategies)

\* the history holds at most 1000 signals, in the order they were issued,
\* none missing between the first kept and the last
C26_Bounded(history) ==
    /\ Len(history) <= 1000
    /\ \A i \in 1 .. Len(history) - 1 : history[i + 1] = history[i] + 1

\* the history ends with the signals just returned
C26_EndsWith(history, signals) ==
    /\ Len(history) >= Len(signals)
    /\ SubSeq(history, Len(history) - Len(signals) + 1, Len(history)) = signals

\* C26: every signal history (StrategyEngine.signal_history and
\* TradingEngine.signals_history) is a bounded buffer: it never holds more
\* than 1000 signals, and it retains the most recent signals in order.
C26_Original ==
    /\ C26_Bounded(engine.signal_history)
    /\ C26_Bounded(engine.signals_history)
    /\ Returned("generate_signals_for_ticker") => C26_EndsWith(engine.signal_history, ret)
    /\ Returned("scan_market") => C26_EndsWith(engine.signals_history, ret)

\* the part of C26 that is about StrategyEngine.signal_history alone
C26_StrategyEngineAlone ==
    /\ C26_Bounded(engine.signal_history)
    /\ Returned("generate_signals_for_ticker") => C26_EndsWith(engine.signal_history, ret)

\* the four conditions of C29, on the executor a call of execute_signal
\* found: the call changes neither the mode nor the enabled tickers, and it
\* counts an execution only when it returns EXECUTED
C29_Gates ==
    /\ executor.execution_mode # "DISABLED"
    /\ args.ticker \in executor.enabled_tickers
    /\ RGe(args.signal.confidence, Rat(7, 10))
    /\ executor.daily_executions - (IF ret.status = "EXECUTED" THEN 1 ELSE 0) < 5

\* the call went past the four checks: it sized a position, named the order,
\* or ended otherwise than REJECTED
C29_ReachedTheOrder ==
    \/ ret.status # "REJECTED"
    \/ ret.quantity.kind = "given"
    \/ ret.error_message \in {"position size", "unknown action"}

C29_NeverSized ==
    /\ Returned("execute_signal")
    /\ C29_Gates
    /\ ret.status = "REJECTED"
    /\ ret.error_message = "position size"

====
